---- MODULE Spec2Model ----
(***************************************************************************)
(* Order service of kyndrylorderservice: the order entity and its          *)
(* validators (app/models/order.py), the repository's document round trip  *)
(* (app/repositories/order_repository.py), the order service               *)
(* (app/services/order_service.py) and the decimal amount validator        *)
(* (app/core/validators.py).                                               *)
(*                                                                         *)
(* A Decimal is the pair its as_tuple() gives: a signed coefficient and an *)
(* exponent, value = coef * 10^exp.  Monetary amounts are therefore exact. *)
(***************************************************************************)
EXTENDS Integers, Sequences, FiniteSets, TLC

VARIABLES
    store,      \* the Cosmos container: order id -> stored document
    clock,      \* datetime.utcnow()
    lastCall,   \* the last service call: its arguments and what it returned
    entity,     \* an Order instance held by a caller (models/order.py)
    lastCtor,   \* the last construction or assignment on the entity layer
    amountIn,   \* validate_financial_amount: the call's arguments
    amountOut,  \* validate_financial_amount: the first and the repeated result
    requests    \* the requests in flight: what each has read and not yet written

vars == <<store, clock, lastCall, entity, lastCtor, amountIn, amountOut, requests>>

----------------------------------------------------------------------------
(* Bounds of the model *)

MaxOrders == 2
MaxClock == 3
MaxCents == 3
MaxDigits == 16

----------------------------------------------------------------------------
(* Decimal arithmetic (decimal.Decimal, exact within the context precision) *)

RECURSIVE Pow10(_)
Pow10(n) == IF n <= 0 THEN 1 ELSE 10 * Pow10(n - 1)

Dec(c, e) == [coef |-> c, exp |-> e]

Cents(n) == Dec(n, -2)

MinExp(a, b) == IF a.exp <= b.exp THEN a.exp ELSE b.exp

\* the coefficient of d written with exponent e (e <= d.exp)
Scaled(d, e) == d.coef * Pow10(d.exp - e)

DecAdd(a, b) == Dec(Scaled(a, MinExp(a, b)) + Scaled(b, MinExp(a, b)), MinExp(a, b))

DecSub(a, b) == Dec(Scaled(a, MinExp(a, b)) - Scaled(b, MinExp(a, b)), MinExp(a, b))

DecAbs(a) == Dec(IF a.coef < 0 THEN -a.coef ELSE a.coef, a.exp)

\* int * Decimal: the int is Decimal(int), exponent 0
DecMulInt(q, d) == Dec(q * d.coef, d.exp)

DecLt(a, b) == Scaled(a, MinExp(a, b)) < Scaled(b, MinExp(a, b))

DecLe(a, b) == Scaled(a, MinExp(a, b)) <= Scaled(b, MinExp(a, b))

\* Decimal.__eq__ : numerical equality, whatever the exponents
DecEq(a, b) == Scaled(a, MinExp(a, b)) = Scaled(b, MinExp(a, b))

\* sum(item.total_price for item in items): starts from the int 0
RECURSIVE SumTotalPrice(_)
SumTotalPrice(items) ==
    IF items = <<>> THEN Dec(0, 0)
    ELSE DecAdd(SumTotalPrice(SubSeq(items, 1, Len(items) - 1)),
                items[Len(items)].total_price)

----------------------------------------------------------------------------
(* The entity layer: pydantic models of app/models/order.py.                *)
(* An instance is a function from field names to values.  A model is        *)
(* validated field by field in declaration order; a validator sees, in      *)
(* `values`, the fields validated before it (on assignment: every other     *)
(* field of the instance).                                                  *)

OrderStatus == {"pending", "confirmed", "processing", "shipped", "delivered",
                "cancelled", "refunded"}

None == "None"

\* updated_at: Optional[datetime] = None; the clock's first reading is 1
NoTime == 0

NoDec == Dec(0, 0)

Err(loc, msg, got, expected) == [loc |-> loc, msg |-> msg, got |-> got, expected |-> expected]

Pass(v) == [ok |-> TRUE, value |-> v, err |-> Err("", "", NoDec, NoDec)]

Fail(v, e) == [ok |-> FALSE, value |-> v, err |-> e]

\* Field(..., ge=0, decimal_places=2) on a Decimal
MoneyField(loc, v) ==
    IF v.coef < 0
    THEN Fail(v, Err(loc, "ensure this value is greater than or equal to 0", v, NoDec))
    ELSE IF v.exp < -2
    THEN Fail(v, Err(loc, "ensure that there are no more than 2 decimal places", v, NoDec))
    ELSE Pass(v)

\* quantity: int = Field(..., ge=1, le=1000)
QuantityField(loc, v) ==
    IF v < 1
    THEN Fail(v, Err(loc, "ensure this value is greater than or equal to 1", NoDec, NoDec))
    ELSE IF v > 1000
    THEN Fail(v, Err(loc, "ensure this value is less than or equal to 1000", NoDec, NoDec))
    ELSE Pass(v)

Has(values, f) == f \in DOMAIN values

\* a line-total check that tolerates a cent, as the order totals do
validate_total_price_tolerant(v, values) ==
    IF Has(values, "quantity") /\ Has(values, "unit_price")
    THEN IF DecLt(Cents(1), DecAbs(DecSub(v, DecMulInt(values["quantity"],
                                                       values["unit_price"]))))
         THEN Fail(v, Err("total_price", "Total price must equal quantity * unit_price",
                          v, DecMulInt(values["quantity"], values["unit_price"])))
         ELSE Pass(v)
    ELSE Pass(v)

\* OrderItem.validate_total_price
validate_total_price(v, values) ==
    IF Has(values, "quantity") /\ Has(values, "unit_price")
    THEN IF ~DecEq(v, DecMulInt(values["quantity"], values["unit_price"]))
         THEN Fail(v, Err("total_price", "Total price must equal quantity * unit_price",
                          v, DecMulInt(values["quantity"], values["unit_price"])))
         ELSE Pass(v)
    ELSE Pass(v)

\* Order.set_partition_key
set_partition_key(v, values) ==
    IF Has(values, "customer_id") THEN values["customer_id"] ELSE v

Tolerance == Cents(1)

\* a subtotal check that forgets abs(): only an excess is caught
validate_subtotal_no_abs(v, values) ==
    IF Has(values, "items")
    THEN IF DecLt(Cents(1), DecSub(v, SumTotalPrice(values["items"])))
         THEN Fail(v, Err("subtotal", "Subtotal does not match sum of items",
                          v, SumTotalPrice(values["items"])))
         ELSE Pass(v)
    ELSE Pass(v)

\* Order.validate_subtotal
validate_subtotal(v, values) ==
    IF Has(values, "items")
    THEN IF DecLt(Tolerance, DecAbs(DecSub(v, SumTotalPrice(values["items"]))))
         THEN Fail(v, Err("subtotal", "Subtotal does not match sum of items",
                          v, SumTotalPrice(values["items"])))
         ELSE Pass(v)
    ELSE Pass(v)

\* an expected total that leaves the discount out
ExpectedTotal_no_discount(values) ==
    DecAdd(DecAdd(values["subtotal"], values["tax_amount"]), values["shipping_amount"])

\* expected_total of Order.validate_total_amount
ExpectedTotal(values) ==
    DecSub(DecAdd(DecAdd(values["subtotal"], values["tax_amount"]),
                  values["shipping_amount"]),
           values["discount_amount"])

\* Order.validate_total_amount
validate_total_amount(v, values) ==
    IF \A f \in {"subtotal", "tax_amount", "shipping_amount", "discount_amount"} :
           Has(values, f)
    THEN IF DecLt(Tolerance, DecAbs(DecSub(v, ExpectedTotal(values))))
         THEN Fail(v, Err("total_amount", "Total amount does not match calculated total",
                          v, ExpectedTotal(values)))
         ELSE Pass(v)
    ELSE Pass(v)

OrderItemFields == <<"quantity", "unit_price", "total_price">>

OrderFields ==
    <<"created_at", "updated_at", "id", "partition_key", "order_number",
      "customer_id", "status", "items", "subtotal", "tax_amount",
      "shipping_amount", "discount_amount", "total_amount",
      "shipping_address", "notes">>

Fields(model) == IF model = "OrderItem" THEN OrderItemFields ELSE OrderFields

\* the fields declared Field(...): no default
Required(model) ==
    IF model = "OrderItem" THEN {"quantity", "unit_price", "total_price"}
    ELSE {"partition_key", "order_number", "customer_id", "items", "subtotal",
          "total_amount"}

\* the declared defaults; `fresh` supplies the two default factories
Default(f, fresh) ==
    CASE f = "created_at" -> fresh.now
      [] f = "updated_at" -> NoTime
      [] f = "id" -> fresh.id
      [] f = "status" -> "pending"
      [] f \in {"tax_amount", "shipping_amount", "discount_amount"} -> Cents(0)
      [] OTHER -> None

Result(values, errors) == [ok |-> errors = <<>>, values |-> values, errors |-> errors]

RECURSIVE ValidateModel(_, _, _, _, _, _)

RECURSIVE ValidateItems(_, _, _)
\* List[OrderItem]: every element is validated as an OrderItem
ValidateItems(raw, done, errors) ==
    IF Len(done) = Len(raw) THEN Result(done, errors)
    ELSE LET r == ValidateModel("OrderItem", raw[Len(done) + 1], [now |-> 0, id |-> None],
                                1, <<>>, <<>>) IN
         ValidateItems(raw, Append(done, r.values), errors \o r.errors)

\* the list is the field's value when every element validated
ItemsOutcome(v, r) == IF r.ok THEN Pass(r.values) ELSE Fail(v, r.errors[1])

ItemsField(v) ==
    IF Len(v) < 1
    THEN Fail(v, Err("items", "ensure this value has at least 1 items", NoDec, NoDec))
    ELSE IF Len(v) > 100
    THEN Fail(v, Err("items", "ensure this value has at most 100 items", NoDec, NoDec))
    ELSE ItemsOutcome(v, ValidateItems(v, <<>>, <<>>))

\* a field's own type and constraints, then its @validator
FieldValidate(model, f, v, values) ==
    IF model = "OrderItem"
    THEN CASE f = "quantity" -> QuantityField(f, v)
           [] f = "unit_price" -> MoneyField(f, v)
           [] f = "total_price" ->
                IF MoneyField(f, v).ok THEN validate_total_price(v, values)
                ELSE MoneyField(f, v)
    ELSE CASE f = "partition_key" -> Pass(set_partition_key(v, values))
           [] f = "status" ->
                IF v \in OrderStatus THEN Pass(v)
                ELSE Fail(v, Err(f, "value is not a valid enumeration member", NoDec, NoDec))
           [] f = "items" -> ItemsField(v)
           [] f = "subtotal" ->
                IF MoneyField(f, v).ok THEN validate_subtotal(v, values)
                ELSE MoneyField(f, v)
           [] f \in {"tax_amount", "shipping_amount", "discount_amount"} -> MoneyField(f, v)
           [] f = "total_amount" ->
                IF MoneyField(f, v).ok THEN validate_total_amount(v, values)
                ELSE MoneyField(f, v)
           [] OTHER -> Pass(v)

\* a field enters `values` only when its validators passed
FieldOutcome(f, r, values, errors) ==
    IF r.ok
    THEN [values |-> values @@ (f :> r.value), errors |-> errors]
    ELSE [values |-> values, errors |-> Append(errors, r.err)]

\* one field of validate_model: a missing field takes its default or is
\* reported as required; a given one goes through its validators and is added
\* to `values` only when they pass
ValidateField(model, data, fresh, f, values, errors) ==
    IF ~Has(data, f)
    THEN IF f \in Required(model)
         THEN [values |-> values,
               errors |-> Append(errors, Err(f, "field required", NoDec, NoDec))]
         ELSE [values |-> values @@ (f :> Default(f, fresh)), errors |-> errors]
    ELSE FieldOutcome(f, FieldValidate(model, f, data[f], values), values, errors)

\* pydantic's validate_model: fields i.. of the model, in declaration order
ValidateModel(model, data, fresh, i, values, errors) ==
    IF i > Len(Fields(model)) THEN Result(values, errors)
    ELSE CHOOSE res \in
            {ValidateModel(model, data, fresh, i + 1, s.values, s.errors) :
                s \in {ValidateField(model, data, fresh, Fields(model)[i], values, errors)}} :
            TRUE

\* OrderItem(**data)
OrderItem(data) == ValidateModel("OrderItem", data, [now |-> 0, id |-> None], 1, <<>>, <<>>)

\* Order(**data)
Order(data, fresh) == ValidateModel("Order", data, fresh, 1, <<>>, <<>>)

Without(obj, name) == [k \in DOMAIN obj \ {name} |-> obj[k]]

\* the attribute is replaced only when the field's validators passed
AssignOutcome(obj, name, r) ==
    IF r.ok THEN Result([obj EXCEPT ![name] = r.value], <<>>)
    ELSE Result(obj, <<r.err>>)

\* Order.__setattr__ under Config.validate_assignment: the field's validators
\* run with every other field of the instance as `values`
SetAttr(obj, name, value) ==
    AssignOutcome(obj, name, FieldValidate("Order", name, value, Without(obj, name)))

----------------------------------------------------------------------------
(* Callers of the entity layer: a caller constructs a line item or an order *)
(* from arbitrary field values, then reassigns single fields of the order   *)
(* it holds, any number of times.                                           *)

NoEntity == <<>>

NoCall == [op |-> "none"]

IdleStore == <<>>

IdleAmountIn == <<>>

IdleAmountOut == <<>>

NoRequests == <<>>

\* amounts a caller may pass: negative, zero, small, and one with 3 decimals
MoneyInputs == {Cents(n) : n \in -1 .. MaxCents} \cup {Dec(10, -3)}

ItemInputs ==
    {[quantity |-> q, unit_price |-> Cents(p), total_price |-> t] :
        q \in {0, 1, 2}, p \in {0, 1, 2}, t \in MoneyInputs}

GoodItemA == [quantity |-> 1, unit_price |-> Cents(1), total_price |-> Cents(1)]

GoodItemB == [quantity |-> 2, unit_price |-> Cents(1), total_price |-> Cents(2)]

BadItem == [quantity |-> 1, unit_price |-> Cents(1), total_price |-> Cents(2)]

ItemLists == {<<>>, <<GoodItemA>>, <<GoodItemB>>, <<BadItem>>, <<GoodItemA, GoodItemB>>}

Customers == {"c1", "c2"}

\* keyword arguments that may be left out are given as the empty function
Opt(f, S) == {<<>>} \cup {(f :> x) : x \in S}

OrderInputs ==
    {(("order_number" :> "ORD-1") @@ ("customer_id" :> c) @@ ("items" :> its)
        @@ ("subtotal" :> sub) @@ ("total_amount" :> tot) @@ pk @@ tax @@ disc) :
        c \in {"c1"}, its \in ItemLists, sub \in MoneyInputs, tot \in MoneyInputs,
        pk \in Opt("partition_key", Customers),
        tax \in Opt("tax_amount", {Cents(1)}),
        disc \in Opt("discount_amount", {Cents(2)})}

EntityInit ==
    /\ entity = NoEntity
    /\ lastCtor = NoCall

EntityIdle == UNCHANGED <<store, clock, lastCall, amountIn, amountOut, requests>>

\* OrderItem(product_id=..., quantity=q, unit_price=p, total_price=t)
ConstructItem ==
    /\ lastCtor = NoCall
    /\ \E data \in ItemInputs :
          lastCtor' = [op |-> "OrderItem", data |-> data, res |-> OrderItem(data)]
    /\ UNCHANGED entity
    /\ EntityIdle

\* Order(order_number=..., customer_id=..., items=..., subtotal=..., ...)
ConstructOrder ==
    /\ lastCtor = NoCall
    /\ \E data \in OrderInputs :
          LET res == Order(data, [now |-> 0, id |-> "o1"]) IN
          /\ lastCtor' = [op |-> "Order", data |-> data, res |-> res]
          /\ entity' = IF res.ok THEN res.values ELSE entity
    /\ EntityIdle

AssignInputs ==
    {<<"items", v>> : v \in ItemLists}
    \cup {<<f, v>> : f \in {"subtotal", "total_amount"}, v \in MoneyInputs}
    \cup {<<"tax_amount", Cents(1)>>, <<"tax_amount", Cents(0)>>,
          <<"discount_amount", Cents(2)>>, <<"discount_amount", Cents(0)>>,
          <<"shipping_amount", Cents(1)>>}
    \cup {<<"partition_key", v>> : v \in Customers}

\* order.<name> = value
Assign ==
    /\ entity # NoEntity
    /\ \E a \in AssignInputs :
          LET res == SetAttr(entity, a[1], a[2]) IN
          /\ lastCtor' = [op |-> "setattr", name |-> a[1], value |-> a[2],
                          before |-> entity, res |-> res]
          /\ entity' = res.values
    /\ EntityIdle

NextEntity == ConstructItem \/ ConstructOrder \/ Assign

InitEntity ==
    /\ EntityInit
    /\ store = IdleStore
    /\ clock = 0
    /\ lastCall = NoCall
    /\ amountIn = IdleAmountIn
    /\ amountOut = IdleAmountOut
    /\ requests = NoRequests

SpecEntity == InitEntity /\ [][NextEntity]_vars

----------------------------------------------------------------------------
(* Claims about the entity layer (SpecEntity) *)

Cited(res, msg) == {res.errors[i] : i \in {j \in 1 .. Len(res.errors) : res.errors[j].msg = msg}}

Within(a, b) == DecLe(DecAbs(DecSub(a, b)), Tolerance)

\* a keyword argument, or the field's declared default when it is left out
Arg(data, f) == IF Has(data, f) THEN data[f] ELSE Default(f, [now |-> 0, id |-> None])

SubtotalInv(o) == Within(o["subtotal"], SumTotalPrice(o["items"]))


CtorOrder == lastCtor.op = "Order"

ArgTotal(data) ==
    DecSub(DecAdd(DecAdd(Arg(data, "subtotal"), Arg(data, "tax_amount")),
                  Arg(data, "shipping_amount")),
           Arg(data, "discount_amount"))

TotalInv(o) == Within(o["total_amount"], ArgTotal(o))

C6_AssignmentKeepsTotals ==
    entity # NoEntity => SubtotalInv(entity) /\ TotalInv(entity)

C8_PartitionKeyDerived ==
    CtorOrder =>
        /\ (lastCtor.res.ok =>
              lastCtor.res.values["partition_key"] = lastCtor.res.values["customer_id"])
        /\ (~Has(lastCtor.data, "partition_key")
            /\ Order(lastCtor.data @@ ("partition_key" :> lastCtor.data["customer_id"]),
                     [now |-> 0, id |-> "o1"]).ok
            => lastCtor.res.ok)

----------------------------------------------------------------------------
(* The repository: app/repositories/order_repository.py.  A document holds  *)
(* its amounts as floats.  A float is written here as the shortest decimal  *)
(* that reads back to it, which is what str(float) prints; the amounts of   *)
(* the model have far fewer than 15 significant digits, so                  *)
(* float(Decimal) loses nothing.                                            *)

MoneyFieldNames ==
    {"subtotal", "tax_amount", "shipping_amount", "discount_amount", "total_amount"}

RECURSIVE StripZeros(_)
StripZeros(d) ==
    IF d.coef = 0 THEN Dec(0, 0)
    ELSE IF d.coef % 10 = 0 THEN StripZeros(Dec(d.coef \div 10, d.exp + 1))
    ELSE d

\* float(Decimal)
ToFloat(d) == StripZeros(d)

\* Decimal(str(float)): "50.0", "79.97"
FromFloat(f) == IF f.exp >= 0 THEN Dec(f.coef * Pow10(f.exp + 1), -1) ELSE f

ItemToDict(it) ==
    [it EXCEPT !["unit_price"] = ToFloat(@), !["total_price"] = ToFloat(@)]

ItemFromDict(it) ==
    [it EXCEPT !["unit_price"] = FromFloat(@), !["total_price"] = FromFloat(@)]

\* OrderRepository._order_to_dict
order_to_dict(o) ==
    [f \in DOMAIN o |->
        IF f \in MoneyFieldNames THEN ToFloat(o[f])
        ELSE IF f = "items" THEN [i \in 1 .. Len(o[f]) |-> ItemToDict(o[f][i])]
        ELSE o[f]]

\* OrderRepository._order_from_dict: Order(**data) validates the document again
order_from_dict(d) ==
    Order([f \in DOMAIN d |->
              IF f \in MoneyFieldNames THEN FromFloat(d[f])
              ELSE IF f = "items" THEN [i \in 1 .. Len(d[f]) |-> ItemFromDict(d[f][i])]
              ELSE d[f]],
          [now |-> 0, id |-> None])

\* container.read_item(item=order_id, partition_key=customer_id)
Readable(order_id, customer_id) ==
    /\ order_id \in DOMAIN store
    /\ store[order_id]["partition_key"] = customer_id

----------------------------------------------------------------------------
(* The service: app/services/order_service.py *)

OrderIds == 1 .. MaxOrders

\* a cancel guard that forgets the delivered orders
CancelBlocked_shipped_only == {"shipped"}

CancelBlocked == {"shipped", "delivered"}

\* a guard that blocks nothing
CancelGuard_never(status) == FALSE

\* the guard of cancel_order: existing_order.status in [SHIPPED, DELIVERED]
CancelGuard(status) == status \in CancelBlocked

\* what a call returned: an order, None, or the RuntimeError it raised
Returned(op, order_id, customer_id, outcome, msg, cited, repo_update) ==
    [op |-> op, order_id |-> order_id, customer_id |-> customer_id,
     outcome |-> outcome, msg |-> msg, cited |-> cited, repo_update |-> repo_update]

\* OrderCreate requests (already validated by the schema)
CreateItems ==
    {<<[quantity |-> 1, unit_price |-> Cents(1)]>>,
     <<[quantity |-> 2, unit_price |-> Cents(1)], [quantity |-> 1, unit_price |-> Cents(2)]>>}

CreateInputs ==
    [customer_id : Customers, items : CreateItems,
     tax_amount : {Cents(0), Cents(1)}, shipping_amount : {Cents(0)},
     discount_amount : {Cents(0), Cents(9)}, notes : {None}]

\* the loop of create_order: OrderItem(..., total_price=quantity * unit_price)
RECURSIVE CreateOrderItems(_)
CreateOrderItems(items) ==
    IF items = <<>> THEN <<>>
    ELSE Append(CreateOrderItems(SubSeq(items, 1, Len(items) - 1)),
                OrderItem([quantity |-> items[Len(items)].quantity,
                           unit_price |-> items[Len(items)].unit_price,
                           total_price |-> DecMulInt(items[Len(items)].quantity,
                                                     items[Len(items)].unit_price)]).values)

\* OrderService._calculate_order_totals
calculate_order_totals(items, tax_amount, shipping_amount, discount_amount) ==
    [subtotal |-> SumTotalPrice(items),
     total_amount |-> DecSub(DecAdd(DecAdd(SumTotalPrice(items), tax_amount),
                                    shipping_amount),
                             discount_amount)]

\* the Order(...) that create_order builds
NewOrder(order_data, id, now) ==
    LET order_items == CreateOrderItems(order_data.items)
        totals == calculate_order_totals(order_items, order_data.tax_amount,
                                         order_data.shipping_amount,
                                         order_data.discount_amount)
    IN  Order(("order_number" :> <<"ORD", id>>)
              @@ ("customer_id" :> order_data.customer_id)
              @@ ("partition_key" :> order_data.customer_id)
              @@ ("status" :> "pending")
              @@ ("items" :> order_items)
              @@ ("subtotal" :> totals.subtotal)
              @@ ("tax_amount" :> order_data.tax_amount)
              @@ ("shipping_amount" :> order_data.shipping_amount)
              @@ ("discount_amount" :> order_data.discount_amount)
              @@ ("total_amount" :> totals.total_amount)
              @@ ("shipping_address" :> "billing")
              @@ ("notes" :> order_data.notes)
              @@ ("created_at" :> now),
              [now |-> now, id |-> id])

ServiceIdle == UNCHANGED <<entity, lastCtor, amountIn, amountOut, requests>>

\* OrderService.create_order
create_order ==
    /\ clock < MaxClock
    /\ \E id \in OrderIds \ DOMAIN store, order_data \in CreateInputs :
          LET order == NewOrder(order_data, id, clock + 1) IN
          /\ id = CHOOSE n \in OrderIds \ DOMAIN store : \A m \in OrderIds \ DOMAIN store : n <= m
          /\ IF order.ok
             THEN /\ store' = store @@ (id :> order_to_dict(order.values))
                  /\ lastCall' = Returned("create_order", id, order_data.customer_id,
                                          "ok", "", None, FALSE)
             ELSE /\ store' = store
                  /\ lastCall' = Returned("create_order", id, order_data.customer_id,
                                          "error", "Failed to create order", None, FALSE)
    /\ clock' = clock + 1
    /\ ServiceIdle

\* OrderUpdate requests: the fields that were set (exclude_unset)
UpdateInputs ==
    {("status" :> s) : s \in OrderStatus \cup {None}}
    \cup {("notes" :> "n1"), ("shipping_address" :> "a2"),
          ("status" :> "shipped") @@ ("notes" :> "n1")}

\* an update_order whose setattr loop skips the status
UpdateFieldOrder_status_skipped == <<"notes", "shipping_address">>

UpdateFieldOrder == <<"status", "notes", "shipping_address">>

\* the setattr loop of update_order, over the fields i.. of the request
RECURSIVE ApplyUpdate(_, _, _)
ApplyUpdate(order, update_dict, i) ==
    IF i > Len(UpdateFieldOrder) \/ ~order.ok THEN order
    ELSE IF ~Has(update_dict, UpdateFieldOrder[i]) THEN ApplyUpdate(order, update_dict, i + 1)
    ELSE ApplyUpdate(SetAttr(order.values, UpdateFieldOrder[i],
                             update_dict[UpdateFieldOrder[i]]),
                     update_dict, i + 1)

\* an update that stamps created_at as well
RepositoryUpdate_created_at_stamped(order, now) ==
    (order["id"] :> order_to_dict([order EXCEPT !["updated_at"] = now,
                                                !["created_at"] = now])) @@ store

\* OrderRepository.update: stamps updated_at and replaces the document
RepositoryUpdate(order, now) ==
    (order["id"] :> order_to_dict([order EXCEPT !["updated_at"] = now])) @@ store

\* what update_order was asked once it had read the order, and the status it read
Asked(update_data, existing_status) ==
    [update_data |-> update_data, existing_status |-> existing_status]

\* OrderService.update_order
update_order ==
    /\ clock < MaxClock
    /\ \E order_id \in OrderIds, customer_id \in Customers, update_data \in UpdateInputs :
          IF ~Readable(order_id, customer_id)
          THEN /\ lastCall' = Returned("update_order", order_id, customer_id,
                                       "none", "", None, FALSE)
               /\ UNCHANGED <<store, clock>>
          ELSE \E updated \in {ApplyUpdate(order_from_dict(store[order_id]), update_data, 1)} :
                   IF updated.ok
                   THEN /\ store' = RepositoryUpdate(
                                       [updated.values EXCEPT !["updated_at"] = clock + 1],
                                       clock + 1)
                        /\ clock' = clock + 1
                        /\ lastCall' = Returned("update_order", order_id, customer_id,
                                                "ok", "", None, TRUE)
                                       @@ Asked(update_data, store[order_id]["status"])
                   ELSE /\ lastCall' = Returned("update_order", order_id, customer_id,
                                                "error", "Failed to update order", None, FALSE)
                                       @@ Asked(update_data, store[order_id]["status"])
                        /\ UNCHANGED <<store, clock>>
    /\ ServiceIdle

Outcome(st, clk, ret) == [store |-> st, clock |-> clk, ret |-> ret]

\* status = CANCELLED, updated_at = utcnow(), then order_repository.update
SaveCancelled(existing_order, now) ==
    RepositoryUpdate([SetAttr(existing_order, "status", "cancelled").values
                         EXCEPT !["updated_at"] = now],
                     now)

cancel_existing_write_first(existing_order, order_id, customer_id) ==
    IF existing_order.values["status"] \in {"shipped", "delivered"}
    THEN Outcome(SaveCancelled(existing_order.values, clock + 1), clock + 1,
                 Returned("cancel_order", order_id, customer_id, "error",
                          "Cannot cancel order in status",
                          existing_order.values["status"], TRUE))
    ELSE Outcome(SaveCancelled(existing_order.values, clock + 1), clock + 1,
                 Returned("cancel_order", order_id, customer_id, "ok", "", None, TRUE))

\* a cancel_order that sets the status and saves before it looks at the guard
cancel_result_write_first(order_id, customer_id) ==
    IF ~Readable(order_id, customer_id)
    THEN Outcome(store, clock, Returned("cancel_order", order_id, customer_id,
                                        "none", "", None, FALSE))
    ELSE cancel_existing_write_first(order_from_dict(store[order_id]), order_id, customer_id)

\* cancel_order once get_by_id returned the order
cancel_existing(existing_order, order_id, customer_id) ==
    IF ~existing_order.ok
    THEN Outcome(store, clock, Returned("cancel_order", order_id, customer_id,
                                        "error", "Failed to get order", None, FALSE))
    ELSE IF CancelGuard(existing_order.values["status"])
    THEN Outcome(store, clock,
                 Returned("cancel_order", order_id, customer_id, "error",
                          "Cannot cancel order in status",
                          existing_order.values["status"], FALSE))
    ELSE Outcome(SaveCancelled(existing_order.values, clock + 1), clock + 1,
                 Returned("cancel_order", order_id, customer_id, "ok", "", None, TRUE))

\* the body of OrderService.cancel_order: the store and the clock it leaves,
\* and what it returns or raises
cancel_result(order_id, customer_id) ==
    IF ~Readable(order_id, customer_id)
    THEN Outcome(store, clock, Returned("cancel_order", order_id, customer_id,
                                        "none", "", None, FALSE))
    ELSE cancel_existing(order_from_dict(store[order_id]), order_id, customer_id)

\* OrderService.cancel_order
cancel_order ==
    /\ clock < MaxClock
    /\ \E order_id \in OrderIds, customer_id \in Customers :
       \E res \in {cancel_result(order_id, customer_id)} :
          /\ store' = res.store
          /\ clock' = res.clock
          /\ lastCall' = res.ret
    /\ ServiceIdle

Next == create_order \/ update_order \/ cancel_order

Init ==
    /\ store = IdleStore
    /\ clock = 0
    /\ lastCall = NoCall
    /\ entity = NoEntity
    /\ lastCtor = NoCall
    /\ amountIn = IdleAmountIn
    /\ amountOut = IdleAmountOut
    /\ requests = NoRequests

Spec == Init /\ [][Next]_vars

----------------------------------------------------------------------------
(* Claims about the service (Spec) *)

StatusOf(st, id) == st[id]["status"]

CancelStep == lastCall'.op = "cancel_order"

\* C1: cancel_order on an existing order succeeds and stores 'cancelled'
\* exactly when the stored status is neither 'shipped' nor 'delivered';
\* otherwise it fails with an error that names the stored status (and the
\* stored status stays).
C1_CancelIffNotShippedOrDelivered ==
    [][CancelStep /\ Readable(lastCall'.order_id, lastCall'.customer_id) =>
          IF StatusOf(store, lastCall'.order_id) \notin {"shipped", "delivered"}
          THEN /\ lastCall'.outcome = "ok"
               /\ StatusOf(store', lastCall'.order_id) = "cancelled"
          ELSE /\ lastCall'.outcome = "error"
               /\ lastCall'.msg = "Cannot cancel order in status"
               /\ lastCall'.cited = StatusOf(store, lastCall'.order_id)
               /\ StatusOf(store', lastCall'.order_id) = StatusOf(store, lastCall'.order_id)]_vars

\* C1 witness: a cancel of a delivered order was rejected naming 'delivered'
C1_Witness ==
    /\ lastCall.op = "cancel_order"
    /\ lastCall.outcome = "error"
    /\ lastCall.cited = "delivered"
    /\ StatusOf(store, lastCall.order_id) = "delivered"

ShippedToCancelled(id) ==
    /\ id \in DOMAIN store
    /\ StatusOf(store, id) \in {"shipped", "delivered"}
    /\ StatusOf(store', id) = "cancelled"

\* C2 (as claimed): no step of create_order, update_order or cancel_order
\* takes a stored status from 'shipped' or 'delivered' to 'cancelled'.
C2_NoStepShippedToCancelled ==
    [][\A id \in OrderIds : ~ShippedToCancelled(id)]_vars

\* C2 (amended): no step of cancel_order or create_order takes a stored
\* status from 'shipped' or 'delivered' to 'cancelled'; the only step that
\* does is an update_order.
C2_OnlyUpdateShippedToCancelled ==
    [][\A id \in OrderIds : ShippedToCancelled(id) => lastCall'.op = "update_order"]_vars

\* C2 witness: a shipped order, a cancel of it just rejected, still shipped
C2_Witness ==
    /\ lastCall.op = "cancel_order"
    /\ lastCall.outcome = "error"
    /\ lastCall.cited = "shipped"
    /\ StatusOf(store, lastCall.order_id) = "shipped"

\* C3: a cancel_order rejected by the status guard never invokes the
\* repository's update and leaves every stored document as it was.
C3_RejectedCancelChangesNothing ==
    [][CancelStep /\ lastCall'.outcome = "error"
         /\ lastCall'.msg = "Cannot cancel order in status" =>
          /\ ~lastCall'.repo_update
          /\ store' = store]_vars

\* C3 witness: a rejected cancel of an order that an update had stamped and
\* annotated before
C3_Witness ==
    /\ lastCall.op = "cancel_order"
    /\ lastCall.outcome = "error"
    /\ lastCall.msg = "Cannot cancel order in status"
    /\ store[lastCall.order_id]["notes"] = "n1"
    /\ store[lastCall.order_id]["updated_at"] # NoTime

----------------------------------------------------------------------------
(* The decimal amount validator: app/core/validators.py.  The amounts it    *)
(* is given can be long, so here a Decimal is its as_tuple(): a sign, the   *)
(* tuple of its digits (no leading zeros; (0,) for zero) and an exponent.   *)

BigDec(sign, digits, exp) == [kind |-> "finite", sign |-> sign, digits |-> digits, exp |-> exp]

Rep(d, n) == [i \in 1 .. n |-> d]

IsZero(d) == \A i \in 1 .. Len(d.digits) : d.digits[i] = 0

\* the position of the leading digit
Adjusted(d) == Len(d.digits) + d.exp

Max2(a, b) == IF a >= b THEN a ELSE b

PadTo(digits, n) == digits \o Rep(0, n - Len(digits))

\* lexicographic order on digit tuples of one length
RECURSIVE LexLt(_, _)
LexLt(a, b) ==
    IF a = <<>> THEN FALSE
    ELSE IF a[1] # b[1] THEN a[1] < b[1]
    ELSE LexLt(Tail(a), Tail(b))

\* |a| < |b|
MagLt(a, b) ==
    IF IsZero(b) THEN FALSE
    ELSE IF IsZero(a) THEN TRUE
    ELSE IF Adjusted(a) # Adjusted(b) THEN Adjusted(a) < Adjusted(b)
    ELSE LexLt(PadTo(a.digits, Max2(Len(a.digits), Len(b.digits))),
               PadTo(b.digits, Max2(Len(a.digits), Len(b.digits))))

Negative(d) == d.sign = 1 /\ ~IsZero(d)

\* Decimal.__lt__ on finite values
BigLt(a, b) ==
    IF Negative(a) THEN (IF Negative(b) THEN MagLt(b, a) ELSE TRUE)
    ELSE IF Negative(b) THEN FALSE
    ELSE MagLt(a, b)

BigLe(a, b) == ~BigLt(b, a)

BigEq(a, b) == ~BigLt(a, b) /\ ~BigLt(b, a)

\* digits + 1, with carry
RECURSIVE Increment(_)
Increment(digits) ==
    IF digits = <<>> THEN <<1>>
    ELSE IF digits[Len(digits)] < 9
    THEN [digits EXCEPT ![Len(digits)] = @ + 1]
    ELSE Append(Increment(SubSeq(digits, 1, Len(digits) - 1)), 0)

\* ROUND_HALF_EVEN: whether dropping `rest` after a last kept digit rounds up
RoundsUp(last, rest) ==
    IF rest = <<>> THEN FALSE
    ELSE IF rest[1] > 5 THEN TRUE
    ELSE IF rest[1] < 5 THEN FALSE
    ELSE IF \E i \in 2 .. Len(rest) : rest[i] # 0 THEN TRUE
    ELSE last % 2 = 1

\* a quantize that leaves the exponent of the amount as it came
Quantize_unchanged(d) == [ok |-> TRUE, value |-> d]

\* amount.quantize(Decimal("0.01")) under the default context (prec 28)
Quantize(d) ==
    IF d.exp >= -2
    THEN LET digits == IF IsZero(d) THEN <<0>> ELSE d.digits \o Rep(0, d.exp + 2) IN
         IF Len(digits) > 28 THEN [ok |-> FALSE, value |-> d]
         ELSE [ok |-> TRUE, value |-> BigDec(d.sign, digits, -2)]
    ELSE LET drop == -2 - d.exp
             keep == IF drop >= Len(d.digits) THEN <<>>
                     ELSE SubSeq(d.digits, 1, Len(d.digits) - drop)
             rest == IF drop > Len(d.digits) THEN <<0>>
                     ELSE SubSeq(d.digits, Len(d.digits) - drop + 1, Len(d.digits))
             last == IF keep = <<>> THEN 0 ELSE keep[Len(keep)]
             rounded == IF RoundsUp(last, rest) THEN Increment(keep)
                        ELSE IF keep = <<>> THEN <<0>> ELSE keep
         IN  [ok |-> TRUE, value |-> BigDec(d.sign, rounded, -2)]

MAX_TOTAL_DIGITS == 15

\* a validator that lets a third decimal place through
MAX_DECIMAL_PLACES_three == 2 + 1

MAX_DECIMAL_PLACES == 2

\* a default maximum of 1,000,000,000,000
MAX_AMOUNT_wider == BigDec(0, <<1>>, 12)

MAX_AMOUNT == BigDec(0, <<9, 9, 9, 9, 9, 9, 9, 9, 9, 9, 9, 9>>, -2)

MIN_AMOUNT == BigDec(0, <<0>>, -2)

NoMax == <<>>

Rejected(amount, reason) == [ok |-> FALSE, value |-> amount, reason |-> reason]

Accepted(value) == [ok |-> TRUE, value |-> value, reason |-> ""]

\* DecimalValidator.validate_financial_amount
validate_financial_amount(amount, allow_zero, max_amount) ==
    IF amount.kind = "invalid"
    THEN Rejected(amount, "must be a valid decimal number")
    ELSE IF amount.kind \in {"NaN", "Infinity"}
    THEN Rejected(amount, "cannot be NaN or infinite")
    ELSE IF ~allow_zero /\ BigLe(amount, MIN_AMOUNT)
    THEN Rejected(amount, "must be greater than 0")
    ELSE IF BigLt(amount, MIN_AMOUNT)
    THEN Rejected(amount, "cannot be negative")
    ELSE IF BigLt(IF max_amount # NoMax THEN max_amount ELSE MAX_AMOUNT, amount)
    THEN Rejected(amount, "cannot exceed")
    ELSE IF amount.exp < 0 /\ -amount.exp > MAX_DECIMAL_PLACES
    THEN Rejected(amount, "cannot have more than 2 decimal places")
    ELSE IF Len(amount.digits) > MAX_TOTAL_DIGITS
    THEN Rejected(amount, "cannot have more than 15 total digits")
    ELSE IF Quantize(amount).ok THEN Accepted(Quantize(amount).value)
    ELSE Rejected(amount, "InvalidOperation")

\* a unit price validator that lets zero through
validate_unit_price_allows_zero(price) == validate_financial_amount(price, TRUE, NoMax)

\* DecimalValidator.validate_unit_price
validate_unit_price(price) == validate_financial_amount(price, FALSE, NoMax)

\* DecimalValidator.validate_total_amount
validate_total_amount_of(amount) == validate_financial_amount(amount, TRUE, NoMax)

\* coefficients: a leading digit, a run of one digit, a last digit
Pattern(l, m, t, n) ==
    IF n = 1 THEN <<l>> ELSE <<l>> \o Rep(m, n - 2) \o <<t>>

CoefInputs ==
    {<<0>>} \cup {Pattern(l, m, t, n) : l \in {1, 9}, m \in {0, 9}, t \in {0, 5, 9},
                                         n \in 1 .. MaxDigits}

ExpInputs == {-3, -2, -1, 0, 1, 2}

AmountInputs ==
    {BigDec(sg, c, e) : sg \in {0, 1}, c \in CoefInputs, e \in ExpInputs}
    \cup {[kind |-> k, sign |-> 0, digits |-> <<0>>, exp |-> 0] :
             k \in {"NaN", "Infinity", "invalid"}}

MaxAmountInputs ==
    {NoMax, BigDec(0, <<1, 0, 0>>, 0), BigDec(0, <<1>>, MaxDigits + 2)}

\* one call, and the same call again on what it returned
validate_call ==
    /\ amountOut = IdleAmountOut
    /\ LET first == validate_financial_amount(amountIn.amount, amountIn.allow_zero,
                                              amountIn.max_amount)
       IN  amountOut' =
              <<first,
                IF first.ok
                THEN validate_financial_amount(first.value, amountIn.allow_zero,
                                               amountIn.max_amount)
                ELSE first>>
    /\ UNCHANGED <<amountIn, store, clock, lastCall, entity, lastCtor, requests>>

\* validate_unit_price(amount)
unit_price_call ==
    /\ lastCall = NoCall
    /\ lastCall' = [op |-> "validate_unit_price", res |-> validate_unit_price(amountIn.amount)]
    /\ UNCHANGED <<amountIn, amountOut, store, clock, entity, lastCtor, requests>>

\* validate_total_amount(amount)
total_amount_call ==
    /\ lastCall = NoCall
    /\ lastCall' = [op |-> "validate_total_amount",
                    res |-> validate_total_amount_of(amountIn.amount)]
    /\ UNCHANGED <<amountIn, amountOut, store, clock, entity, lastCtor, requests>>

NextAmount == validate_call \/ unit_price_call \/ total_amount_call

InitAmount ==
    /\ amountIn \in [amount : AmountInputs, allow_zero : BOOLEAN, max_amount : MaxAmountInputs]
    /\ amountOut = IdleAmountOut
    /\ requests = NoRequests
    /\ store = IdleStore
    /\ clock = 0
    /\ lastCall = NoCall
    /\ entity = NoEntity
    /\ lastCtor = NoCall

SpecAmount == InitAmount /\ [][NextAmount]_vars

----------------------------------------------------------------------------
(* Claims about the amount validator (SpecAmount) *)

Validated == amountOut # IdleAmountOut

Finite == amountIn.amount.kind = "finite"

\* C9: with allow_zero and the default maximum, every amount with at most 2
\* fractional digits, at most 15 significant digits and
\* 0 <= value <= 9,999,999,999.99 is accepted, the result is numerically
\* equal to it and has exactly 2 fractional digits, and validating the
\* result again returns the same result.
C9_NormalizesAndIsIdempotent ==
    Validated /\ Finite /\ amountIn.allow_zero /\ amountIn.max_amount = NoMax
        /\ amountIn.amount.exp >= -2
        /\ Len(amountIn.amount.digits) <= 15
        /\ BigLe(BigDec(0, <<0>>, 0), amountIn.amount)
        /\ BigLe(amountIn.amount, BigDec(0, Rep(9, 12), -2))
    => /\ amountOut[1].ok
       /\ BigEq(amountOut[1].value, amountIn.amount)
       /\ amountOut[1].value.exp = -2
       /\ amountOut[2].ok
       /\ amountOut[2].value = amountOut[1].value

\* C9 witness: an amount with one fractional digit (29.9) came back with two
C9_Witness ==
    /\ Validated /\ Finite /\ amountIn.allow_zero /\ amountIn.max_amount = NoMax
    /\ amountIn.amount.exp = -1
    /\ Len(amountIn.amount.digits) = 3
    /\ amountOut[1].ok
    /\ amountOut[1].value.exp = -2
    /\ Len(amountOut[1].value.digits) = 4
    /\ amountOut[2] = amountOut[1]

\* the maximum a call is held to
MaxOf(in) == IF in.max_amount # NoMax THEN in.max_amount ELSE BigDec(0, Rep(9, 12), -2)

\* non-negative, not zero where zero is not allowed, and not above the maximum
InRange(in) ==
    /\ BigLe(BigDec(0, <<0>>, 0), in.amount)
    /\ (~in.allow_zero => ~IsZero(in.amount))
    /\ BigLe(in.amount, MaxOf(in))

\* C10: every in-range, non-negative amount with more than 2 fractional
\* digits is rejected citing "decimal places", and no accepted amount comes
\* back numerically different from what was given.
C10_NeverRoundsAway ==
    Validated /\ Finite =>
        /\ (amountIn.amount.exp < -2 /\ InRange(amountIn) =>
              /\ ~amountOut[1].ok
              /\ amountOut[1].reason = "cannot have more than 2 decimal places")
        /\ (amountOut[1].ok => BigEq(amountOut[1].value, amountIn.amount))

\* C10 witness: an in-range amount with three fractional digits ending in 9
\* (29.999-like) was rejected citing "decimal places"
C10_Witness ==
    /\ Validated /\ Finite
    /\ amountIn.amount.exp = -3
    /\ Len(amountIn.amount.digits) = 5
    /\ amountIn.amount.digits[5] = 9
    /\ InRange(amountIn)
    /\ ~amountOut[1].ok
    /\ amountOut[1].reason = "cannot have more than 2 decimal places"

\* the same amount under the explicit arguments a specialization stands for
SameAs(res, allow_zero) ==
    /\ res.ok = validate_financial_amount(amountIn.amount, allow_zero, NoMax).ok
    /\ res.reason = validate_financial_amount(amountIn.amount, allow_zero, NoMax).reason
    /\ (res.ok => res.value = validate_financial_amount(amountIn.amount, allow_zero, NoMax).value)

Specializations ==
    /\ (lastCall.op = "validate_unit_price" => SameAs(lastCall.res, FALSE))
    /\ (lastCall.op = "validate_total_amount" => SameAs(lastCall.res, TRUE))

NegativesRejected == Validated /\ Finite /\ Negative(amountIn.amount) => ~amountOut[1].ok

ZeroRefused ==
    Validated /\ Finite /\ IsZero(amountIn.amount) /\ ~amountIn.allow_zero
    => ~amountOut[1].ok /\ amountOut[1].reason = "must be greater than 0"

ReturnsZero ==
    /\ amountOut[1].ok
    /\ IsZero(amountOut[1].value)
    /\ amountOut[1].value.exp = -2

\* C11 as stated: every zero is refused with "must be greater than 0" when
\* allow_zero is false and accepted, returning 0.00, when allow_zero is true;
\* every negative amount is rejected; validate_unit_price is the call with
\* allow_zero false and validate_total_amount the call with allow_zero true.
C11_SignRules ==
    /\ ZeroRefused
    /\ (Validated /\ Finite /\ IsZero(amountIn.amount) /\ amountIn.allow_zero => ReturnsZero)
    /\ NegativesRejected
    /\ Specializations

\* C11, amended: as C11, but a zero is accepted under allow_zero only when
\* it is written with at most 2 fractional digits; a zero written with more
\* (0.000) passes the sign rule and is rejected citing "decimal places".
C11_SignRulesUpToTwoDecimals ==
    /\ ZeroRefused
    /\ (Validated /\ Finite /\ IsZero(amountIn.amount) /\ amountIn.allow_zero =>
          IF amountIn.amount.exp >= -2 THEN ReturnsZero
          ELSE ~amountOut[1].ok
               /\ amountOut[1].reason = "cannot have more than 2 decimal places")
    /\ NegativesRejected
    /\ Specializations

\* C11 witness: the zero written "0" came back as 0.00 under allow_zero, and
\* validate_unit_price refused it with "must be greater than 0"
C11_Witness ==
    /\ Validated /\ Finite /\ amountIn.allow_zero
    /\ IsZero(amountIn.amount) /\ amountIn.amount.exp = 0
    /\ ReturnsZero
    /\ lastCall.op = "validate_unit_price"
    /\ ~lastCall.res.ok /\ lastCall.res.reason = "must be greater than 0"

\* the rules in the order the claim gives them, and the reason of each
FirstFailure(in) ==
    IF in.amount.kind = "invalid" THEN "must be a valid decimal number"
    ELSE IF in.amount.kind # "finite" THEN "cannot be NaN or infinite"
    ELSE IF ~in.allow_zero /\ (Negative(in.amount) \/ IsZero(in.amount))
    THEN "must be greater than 0"
    ELSE IF Negative(in.amount) THEN "cannot be negative"
    ELSE IF BigLt(MaxOf(in), in.amount) THEN "cannot exceed"
    ELSE IF in.amount.exp < -2 THEN "cannot have more than 2 decimal places"
    ELSE IF Len(in.amount.digits) > 15 THEN "cannot have more than 15 total digits"
    ELSE ""

\* C12: the reason a call reports is that of the first rule, in the order
\* parse, NaN/infinite, sign, maximum, fractional digits, total digits, that
\* the amount fails, the maximum being max_amount when given and
\* 9,999,999,999.99 otherwise; an amount that fails no rule is accepted.
C12_FirstFailingRuleReported ==
    Validated =>
        /\ amountOut[1].reason = FirstFailure(amountIn)
        /\ amountOut[1].ok = (FirstFailure(amountIn) = "")

\* C12 witness: a 16-digit amount above the default maximum was reported as
\* "cannot exceed", not as having too many digits
C12_Witness ==
    /\ Validated /\ Finite /\ amountIn.max_amount = NoMax
    /\ ~Negative(amountIn.amount)
    /\ Len(amountIn.amount.digits) = 16
    /\ amountIn.amount.exp = 0
    /\ ~amountOut[1].ok
    /\ amountOut[1].reason = "cannot exceed"

----------------------------------------------------------------------------
(* The request schema, app/schemas/order.py, and the amounts create_order   *)
(* derives from a request.  Amounts are written as digit tuples here, since *)
(* they range up to the validator's maximum and beyond.                     *)

\* DecimalValidator.validate_quantity, on an int (the callers here pass one,
\* so the isinstance check passes)
validate_quantity(quantity) ==
    IF quantity < 1
    THEN [ok |-> FALSE, value |-> quantity, reason |-> "must be at least 1"]
    ELSE IF quantity > 10000
    THEN [ok |-> FALSE, value |-> quantity, reason |-> "cannot exceed 10,000"]
    ELSE [ok |-> TRUE, value |-> quantity, reason |-> ""]

\* Decimal = Field(..., ge=0, decimal_places=2)
MoneyConstraint(v) == ~Negative(v) /\ v.exp >= -2

\* OrderItemCreate(quantity=..., unit_price=...): each field's constraints,
\* then its @validator; the validator's return value is the field's value
OrderItemCreate(data) ==
    [ok |-> /\ QuantityField("quantity", data.quantity).ok
            /\ validate_quantity(data.quantity).ok
            /\ MoneyConstraint(data.unit_price)
            /\ validate_unit_price(data.unit_price).ok,
     values |-> [quantity |-> data.quantity,
                 unit_price |-> validate_unit_price(data.unit_price).value]]

QuantityInputs == {-1, 0, 1, 2, 999, 1000, 1001, 5000, 9999, 10000, 10001}

RequestIdle == UNCHANGED <<store, clock, entity, lastCtor, amountIn, amountOut, requests>>

\* one quantity through the validator, the request schema and the entity
quantity_check ==
    /\ lastCall = NoCall
    /\ \E q \in QuantityInputs :
          lastCall' = [op |-> "quantity", quantity |-> q,
                       validator |-> validate_quantity(q).ok,
                       schema |-> OrderItemCreate([quantity |-> q,
                                                   unit_price |-> BigDec(0, <<1>>, -2)]).ok,
                       entity |-> OrderItem([quantity |-> q, unit_price |-> Cents(1),
                                             total_price |-> DecMulInt(q, Cents(1))]).ok]
    /\ RequestIdle
\* the decimal digits of a natural number
RECURSIVE DigitsOf(_)
DigitsOf(n) == IF n < 10 THEN <<n>> ELSE Append(DigitsOf(n \div 10), n % 10)

RECURSIVE StripLeading(_)
StripLeading(digits) ==
    IF Len(digits) > 1 /\ digits[1] = 0 THEN StripLeading(Tail(digits)) ELSE digits

Front(digits) == SubSeq(digits, 1, Len(digits) - 1)

Last(digits) == digits[Len(digits)]

\* digits * q + carry, digit by digit from the right
RECURSIVE MulDigits(_, _, _)
MulDigits(digits, q, carry) ==
    IF digits = <<>> THEN DigitsOf(carry)
    ELSE Append(MulDigits(Front(digits), q, (Last(digits) * q + carry) \div 10),
                (Last(digits) * q + carry) % 10)

\* int * Decimal: the product of the coefficients at the Decimal's exponent
BigMulInt(q, d) == BigDec(d.sign, StripLeading(MulDigits(d.digits, q, 0)), d.exp)

\* the coefficient of d written at the exponent e <= d.exp, n digits wide
Aligned(d, e, n) == Rep(0, n - Len(d.digits) - (d.exp - e)) \o d.digits \o Rep(0, d.exp - e)

\* a + b + carry on digit tuples of one length
RECURSIVE AddDigits(_, _, _)
AddDigits(a, b, carry) ==
    IF a = <<>> THEN (IF carry = 0 THEN <<>> ELSE <<carry>>)
    ELSE Append(AddDigits(Front(a), Front(b), (Last(a) + Last(b) + carry) \div 10),
                (Last(a) + Last(b) + carry) % 10)

\* a - b - borrow on digit tuples of one length, a >= b
RECURSIVE SubDigits(_, _, _)
SubDigits(a, b, borrow) ==
    IF a = <<>> THEN <<>>
    ELSE Append(SubDigits(Front(a), Front(b),
                          IF Last(a) - Last(b) - borrow < 0 THEN 1 ELSE 0),
                (Last(a) - Last(b) - borrow + 10) % 10)

Min2(a, b) == IF a <= b THEN a ELSE b

Width(a, b) ==
    Max2(Len(a.digits) + a.exp, Len(b.digits) + b.exp) - Min2(a.exp, b.exp)

\* Decimal.__add__ on finite values (exact: the results stay below 28 digits)
BigAdd(a, b) ==
    IF a.sign = b.sign
    THEN BigDec(a.sign,
                StripLeading(AddDigits(Aligned(a, Min2(a.exp, b.exp), Width(a, b)),
                                       Aligned(b, Min2(a.exp, b.exp), Width(a, b)), 0)),
                Min2(a.exp, b.exp))
    ELSE IF MagLt(a, b)
    THEN BigDec(b.sign,
                StripLeading(SubDigits(Aligned(b, Min2(a.exp, b.exp), Width(a, b)),
                                       Aligned(a, Min2(a.exp, b.exp), Width(a, b)), 0)),
                Min2(a.exp, b.exp))
    ELSE BigDec(IF MagLt(b, a) THEN a.sign ELSE 0,
                StripLeading(SubDigits(Aligned(a, Min2(a.exp, b.exp), Width(a, b)),
                                       Aligned(b, Min2(a.exp, b.exp), Width(a, b)), 0)),
                Min2(a.exp, b.exp))

BigNeg(d) == [d EXCEPT !.sign = 1 - @]

\* Decimal.__sub__
BigSub(a, b) == BigAdd(a, BigNeg(b))

BigAbs(d) == [d EXCEPT !.sign = 0]
\* tax_amount, shipping_amount, discount_amount of OrderCreate:
\* Field(ge=0, decimal_places=2), then validate_financial_amount(allow_zero=True)
AmountCreate(v) ==
    [ok |-> MoneyConstraint(v) /\ validate_financial_amount(v, TRUE, NoMax).ok,
     value |-> validate_financial_amount(v, TRUE, NoMax).value]

\* OrderCreate(items=..., tax_amount=..., shipping_amount=..., discount_amount=...)
OrderCreate(data) ==
    [ok |-> /\ Len(data.items) >= 1 /\ Len(data.items) <= 100
            /\ \A i \in 1 .. Len(data.items) : OrderItemCreate(data.items[i]).ok
            /\ AmountCreate(data.tax_amount).ok
            /\ AmountCreate(data.shipping_amount).ok
            /\ AmountCreate(data.discount_amount).ok,
     values |-> [items |-> [i \in 1 .. Len(data.items) |-> OrderItemCreate(data.items[i]).values],
                 tax_amount |-> AmountCreate(data.tax_amount).value,
                 shipping_amount |-> AmountCreate(data.shipping_amount).value,
                 discount_amount |-> AmountCreate(data.discount_amount).value]]

\* the loop of create_order: total_price = item_data.quantity * item_data.unit_price
LineItems(items) ==
    [i \in 1 .. Len(items) |->
        [quantity |-> items[i].quantity, unit_price |-> items[i].unit_price,
         total_price |-> BigMulInt(items[i].quantity, items[i].unit_price)]]

\* sum(item.total_price for item in items), from the int 0
RECURSIVE SumLines(_)
SumLines(items) ==
    IF items = <<>> THEN BigDec(0, <<0>>, 0)
    ELSE BigAdd(SumLines(Front(items)), Last(items).total_price)

\* derived amounts whose total is one cent above the sum of its parts
OrderAmounts_cent_above(order_data) ==
    [items |-> LineItems(order_data.items),
     subtotal |-> SumLines(LineItems(order_data.items)),
     tax_amount |-> order_data.tax_amount,
     shipping_amount |-> order_data.shipping_amount,
     discount_amount |-> order_data.discount_amount,
     total_amount |-> BigAdd(BigSub(BigAdd(BigAdd(SumLines(LineItems(order_data.items)),
                                                  order_data.tax_amount),
                                           order_data.shipping_amount),
                                    order_data.discount_amount),
                             BigDec(0, <<1>>, -2))]

\* the amounts of the Order(...) that create_order builds
OrderAmounts(order_data) ==
    [items |-> LineItems(order_data.items),
     subtotal |-> SumLines(LineItems(order_data.items)),
     tax_amount |-> order_data.tax_amount,
     shipping_amount |-> order_data.shipping_amount,
     discount_amount |-> order_data.discount_amount,
     total_amount |-> BigSub(BigAdd(BigAdd(SumLines(LineItems(order_data.items)),
                                           order_data.tax_amount),
                                    order_data.shipping_amount),
                             order_data.discount_amount)]

\* OrderItem(...): the field constraints and validate_total_price
ItemAmountsValid(it) ==
    /\ QuantityField("quantity", it.quantity).ok
    /\ MoneyConstraint(it.unit_price)
    /\ MoneyConstraint(it.total_price)
    /\ BigEq(it.total_price, BigMulInt(it.quantity, it.unit_price))

\* Order(...): the field constraints, validate_subtotal, validate_total_amount
OrderAmountsValid(o) ==
    /\ Len(o.items) >= 1 /\ Len(o.items) <= 100
    /\ \A i \in 1 .. Len(o.items) : ItemAmountsValid(o.items[i])
    /\ \A f \in MoneyFieldNames : MoneyConstraint(o[f])
    /\ ~BigLt(BigDec(0, <<1>>, -2), BigAbs(BigSub(o.subtotal, SumLines(o.items))))
    /\ ~BigLt(BigDec(0, <<1>>, -2),
              BigAbs(BigSub(o.total_amount,
                            BigSub(BigAdd(BigAdd(o.subtotal, o.tax_amount),
                                          o.shipping_amount),
                                   o.discount_amount))))

RECURSIVE StripTrailing(_)
StripTrailing(d) ==
    IF IsZero(d) THEN BigDec(d.sign, <<0>>, 0)
    ELSE IF Last(d.digits) = 0 THEN StripTrailing(BigDec(d.sign, Front(d.digits), d.exp + 1))
    ELSE d

\* Decimal(str(float(d))) for |d| < 1e16 with at most 15 significant digits:
\* "50.0", "79.97"
FloatRoundTrip(d) ==
    IF IsZero(d) THEN BigDec(d.sign, <<0>>, -1)
    ELSE IF StripTrailing(d).exp >= 0
    THEN BigDec(d.sign, StripTrailing(d).digits \o Rep(0, StripTrailing(d).exp + 1), -1)
    ELSE StripTrailing(d)

\* _order_from_dict(_order_to_dict(order)), on the amounts
StoredAmounts(o) ==
    [f \in DOMAIN o |->
        IF f = "items"
        THEN [i \in 1 .. Len(o.items) |->
                 [o.items[i] EXCEPT !.unit_price = FloatRoundTrip(@),
                                    !.total_price = FloatRoundTrip(@)]]
        ELSE FloatRoundTrip(o[f])]

UnitPriceInputs ==
    {BigDec(0, <<0>>, -2), BigDec(0, <<1>>, -2), BigDec(0, <<2, 5>>, 0),
     BigDec(0, <<5>>, 9), BigDec(0, Rep(9, 12), -2)}

ItemCreateInputs == [quantity : {1, 2, 1000, 1001}, unit_price : UnitPriceInputs]

MaxItems == 2

RECURSIVE ListsOf(_, _)
ListsOf(S, n) ==
    IF n = 0 THEN {<<>>}
    ELSE ListsOf(S, n - 1) \cup {Append(l, x) : l \in ListsOf(S, n - 1), x \in S}

OrderCreateInputs ==
    [items : ListsOf(ItemCreateInputs, MaxItems),
     tax_amount : {BigDec(0, <<0>>, -2), BigDec(0, <<1>>, -2), BigDec(0, Rep(9, 12), -2)},
     shipping_amount : {BigDec(0, <<0>>, -2)},
     discount_amount : {BigDec(0, <<0>>, 0), BigDec(0, <<2>>, -2), BigDec(0, Rep(9, 12), -2),
                        BigDec(0, <<1>>, -3)}]

\* create_order on a request, as far as its amounts go: the schema, the
\* derived amounts, Order(...), the repository's create and what it returns
create_order_amounts ==
    /\ lastCall = NoCall
    /\ \E data \in OrderCreateInputs :
          IF ~OrderCreate(data).ok
          THEN /\ lastCall' = [op |-> "create_order", data |-> data, valid |-> FALSE,
                               outcome |-> "invalid request", order |-> None]
               /\ UNCHANGED store
          ELSE \E order \in {OrderAmounts(OrderCreate(data).values)} :
                  IF OrderAmountsValid(order) /\ OrderAmountsValid(StoredAmounts(order))
                  THEN /\ store' = (1 :> StoredAmounts(order))
                       /\ lastCall' = [op |-> "create_order", data |-> data, valid |-> TRUE,
                                       outcome |-> "ok", order |-> StoredAmounts(order)]
                  ELSE /\ lastCall' = [op |-> "create_order", data |-> data, valid |-> TRUE,
                                       outcome |-> "error", order |-> None]
                       /\ UNCHANGED store
    /\ UNCHANGED <<clock, entity, lastCtor, amountIn, amountOut, requests>>

NextRequest == quantity_check \/ create_order_amounts

SpecRequest == Init /\ [][NextRequest]_vars
----------------------------------------------------------------------------
(* Claims about the request schema and the derived amounts (SpecRequest) *)

\* C13: a quantity is accepted by validate_quantity, by the OrderItemCreate
\* schema and by the OrderItem entity exactly when 1 <= quantity <= 10000.
C13_QuantityRange ==
    lastCall.op = "quantity" =>
        /\ lastCall.validator = (1 <= lastCall.quantity /\ lastCall.quantity <= 10000)
        /\ lastCall.schema = (1 <= lastCall.quantity /\ lastCall.quantity <= 10000)
        /\ lastCall.entity = (1 <= lastCall.quantity /\ lastCall.quantity <= 10000)

\* non-negative, at most 2 fractional digits, at most 9,999,999,999.99
IsMoney(d) ==
    /\ ~Negative(d)
    /\ d.exp >= -2
    /\ BigLe(d, BigDec(0, Rep(9, 12), -2))

AllMoney(o) ==
    /\ \A f \in MoneyFieldNames : IsMoney(o[f])
    /\ \A i \in 1 .. Len(o.items) : IsMoney(o.items[i].unit_price) /\ IsMoney(o.items[i].total_price)

\* C14: every monetary field of an order that create_order produced from a
\* valid request is non-negative, has at most 2 fractional digits and is at
\* most 9,999,999,999.99; a valid request whose derived line total, subtotal
\* or total falls outside these bounds is rejected and nothing is stored.
C14_CreatedAmountsAreMoney ==
    lastCall.op = "create_order" /\ lastCall.valid =>
        /\ (lastCall.outcome = "ok" => AllMoney(lastCall.order))
        /\ (~AllMoney(OrderAmounts(OrderCreate(lastCall.data).values)) =>
              lastCall.outcome = "error" /\ store = IdleStore)
----------------------------------------------------------------------------
(* The input sanitizer: InputSanitizer.sanitize_text in                     *)
(* app/core/validators.py.  A string is the tuple of its characters.        *)

LowerAlpha == <<"a", "b", "c", "d", "e", "f", "g", "h", "i", "j", "k", "l", "m", "n", "o", "p", "q", "r", "s", "t", "u", "v", "w", "x", "y", "z">>

UpperAlpha == <<"A", "B", "C", "D", "E", "F", "G", "H", "I", "J", "K", "L", "M", "N", "O", "P", "Q", "R", "S", "T", "U", "V", "W", "X", "Y", "Z">>

Digits == {"0", "1", "2", "3", "4", "5", "6", "7", "8", "9"}

Range(f) == {f[i] : i \in DOMAIN f}

\* str.lower() of one character (re.IGNORECASE)
Lower(c) ==
    IF c \in Range(UpperAlpha)
    THEN LowerAlpha[CHOOSE i \in DOMAIN UpperAlpha : UpperAlpha[i] = c]
    ELSE c

\* \w
IsWord(c) == c \in Range(LowerAlpha) \cup Range(UpperAlpha) \cup Digits \cup {"_"}

\* \s
IsSpace(c) == c \in {" ", "\t", "\n", "\r"}

\* the literal `lit` (lower case) matches at position i, ignoring case
MatchAt(text, i, lit) ==
    /\ i + Len(lit) - 1 <= Len(text)
    /\ \A k \in 1 .. Len(lit) : Lower(text[i + k - 1]) = lit[k]

\* the first position >= p that holds no white space (Len + 1 if none)
RECURSIVE SkipSpace(_, _)
SkipSpace(text, p) ==
    IF p <= Len(text) /\ IsSpace(text[p]) THEN SkipSpace(text, p + 1) ELSE p

\* the first position >= p that holds no word character
RECURSIVE SkipWord(_, _)
SkipWord(text, p) ==
    IF p <= Len(text) /\ IsWord(text[p]) THEN SkipWord(text, p + 1) ELSE p

\* the first position >= p that holds c (0 if none)
RECURSIVE Find(_, _, _)
Find(text, p, c) ==
    IF p > Len(text) THEN 0
    ELSE IF text[p] = c THEN p
    ELSE Find(text, p + 1, c)

\* </script\s*> at position j: the position of its ">" (0 if no match)
ScriptCloseEnd(text, j) ==
    IF MatchAt(text, j, <<"<", "/", "s", "c", "r", "i", "p", "t">>)
       /\ SkipSpace(text, j + 8) <= Len(text)
       /\ text[SkipSpace(text, j + 8)] = ">"
    THEN SkipSpace(text, j + 8)
    ELSE 0

\* .*?</script\s*> from position j on: the end of the first closing tag
RECURSIVE FirstScriptClose(_, _)
FirstScriptClose(text, j) ==
    IF j > Len(text) THEN 0
    ELSE IF ScriptCloseEnd(text, j) # 0 THEN ScriptCloseEnd(text, j)
    ELSE FirstScriptClose(text, j + 1)

\* SCRIPT_PATTERN = <script[^>]*>.*?</script\s*> at position i: the last
\* position of the match (0 if no match)
ScriptMatchEnd(text, i) ==
    IF MatchAt(text, i, <<"<", "s", "c", "r", "i", "p", "t">>) /\ Find(text, i + 7, ">") # 0
    THEN FirstScriptClose(text, Find(text, i + 7, ">") + 1)
    ELSE 0

\* JAVASCRIPT_PATTERN = javascript:|on\w+\s*= at position i
JavascriptMatchEnd(text, i) ==
    IF MatchAt(text, i, <<"j", "a", "v", "a", "s", "c", "r", "i", "p", "t", ":">>) THEN i + 10
    ELSE IF MatchAt(text, i, <<"o", "n">>)
            /\ i + 2 <= Len(text) /\ IsWord(text[i + 2])
            /\ SkipSpace(text, SkipWord(text, i + 2)) <= Len(text)
            /\ text[SkipSpace(text, SkipWord(text, i + 2))] = "="
    THEN SkipSpace(text, SkipWord(text, i + 2))
    ELSE 0

\* TAG_PATTERN = <[^>]+> at position i
TagMatchEnd(text, i) ==
    IF text[i] = "<" /\ i + 1 <= Len(text) /\ text[i + 1] # ">"
    THEN Find(text, i + 2, ">")
    ELSE 0

\* SCRIPT_PATTERN.sub("", text), from position i on
RECURSIVE RemoveScripts(_, _)
RemoveScripts(text, i) ==
    IF i > Len(text) THEN <<>>
    ELSE IF ScriptMatchEnd(text, i) # 0 THEN RemoveScripts(text, ScriptMatchEnd(text, i) + 1)
    ELSE <<text[i]>> \o RemoveScripts(text, i + 1)

\* JAVASCRIPT_PATTERN.sub("", text), from position i on
RECURSIVE RemoveJavascript(_, _)
RemoveJavascript(text, i) ==
    IF i > Len(text) THEN <<>>
    ELSE IF JavascriptMatchEnd(text, i) # 0
    THEN RemoveJavascript(text, JavascriptMatchEnd(text, i) + 1)
    ELSE <<text[i]>> \o RemoveJavascript(text, i + 1)

\* a tag removal that leaves the tags in the text
RemoveTags_kept(text, i) == SubSeq(text, i, Len(text))

\* TAG_PATTERN.sub("", text), from position i on
RECURSIVE RemoveTags(_, _)
RemoveTags(text, i) ==
    IF i > Len(text) THEN <<>>
    ELSE IF TagMatchEnd(text, i) # 0 THEN RemoveTags(text, TagMatchEnd(text, i) + 1)
    ELSE <<text[i]>> \o RemoveTags(text, i + 1)

\* an escape that leaves the angle brackets as they are
EscapeChar_brackets_kept(c) ==
    CASE c = "&" -> <<"&", "a", "m", "p", ";">>
      [] c = "\"" -> <<"&", "q", "u", "o", "t", ";">>
      [] c = "'" -> <<"&", "#", "x", "2", "7", ";">>
      [] OTHER -> <<c>>

\* html.escape(c, quote=True)
EscapeChar(c) ==
    CASE c = "&" -> <<"&", "a", "m", "p", ";">>
      [] c = "<" -> <<"&", "l", "t", ";">>
      [] c = ">" -> <<"&", "g", "t", ";">>
      [] c = "\"" -> <<"&", "q", "u", "o", "t", ";">>
      [] c = "'" -> <<"&", "#", "x", "2", "7", ";">>
      [] OTHER -> <<c>>

RECURSIVE Escape(_)
Escape(text) ==
    IF text = <<>> THEN <<>> ELSE EscapeChar(Head(text)) \o Escape(Tail(text))

\* the last position that holds no white space (0 if none)
RECURSIVE LastNonSpace(_, _)
LastNonSpace(text, p) ==
    IF p >= 1 /\ IsSpace(text[p]) THEN LastNonSpace(text, p - 1) ELSE p

\* str.strip()
Strip(text) == SubSeq(text, SkipSpace(text, 1), LastNonSpace(text, Len(text)))

NoText == [kind |-> "None", chars |-> <<>>]

Str(chars) == [kind |-> "str", chars |-> chars]

\* text[:max_length] when max_length is truthy and shorter than the text
Truncate(text, max_length) ==
    IF max_length # 0 /\ Len(text) > max_length THEN SubSeq(text, 1, max_length) ELSE text

\* InputSanitizer.sanitize_text; max_length 0 stands for None as well, the
\* two being the same to `if max_length`
sanitize_text(text, max_length) ==
    IF text = NoText THEN NoText
    ELSE Str(Truncate(Strip(Escape(RemoveTags(
                 RemoveJavascript(RemoveScripts(text.chars, 1), 1), 1))),
             max_length))
MaxTokens == 3

\* pieces a caller's text is put together from
Tokens ==
    {<<"<", "s", "c", "r", "i", "p", "t", ">">>,
     <<"<", "/", "S", "c", "r", "i", "p", "t", " ", ">">>,
     <<"j", "a", "v", "a">>,
     <<"s", "c", "r", "i", "p", "t", ":">>,
     <<"O", "N">>,
     <<"c", "l", "i", "c", "k", " ", "=">>,
     <<"<", "b", ">">>,
     <<"H", "e", "l", "l", "o">>,
     <<"<">>}

RECURSIVE Concat(_)
Concat(l) == IF l = <<>> THEN <<>> ELSE Head(l) \o Concat(Tail(l))

\* the texts of the unit tests
ExampleTexts ==
    {<<"<", "s", "c", "r", "i", "p", "t", ">", "a", "l", "e", "r", "t", "(", "1", ")", "<", "/", "s", "c", "r", "i", "p", "t", ">", "H", "e", "l", "l", "o">>,
     <<"<", "d", "i", "v", ">", "H", "e", "l", "l", "o", " ", "W", "o", "r", "l", "d", "<", "/", "d", "i", "v", ">">>,
     <<" ", " ", "H", "i", " ", " ">>,
     <<"j", "a", "v", "a", "s", "c", "r", "i", "p", "t", ":", "a", "l", "e", "r", "t", "(", "'", "X", "S", "S", "'", ")">>,
     <<"<", "s", "c", "r", "i", "p", "t", ">", "a", "l", "e", "r", "t", "(", "'", "X", "S", "S", "'", ")", "<", "/", "s", "c", "r", "i", "p", "t", ">", "<", "i", "m", "g", " ", "s", "r", "c", "=", "x", " ", "o", "n", "e", "r", "r", "o", "r", "=", "a", "l", "e", "r", "t", "(", "1", ")", ">">>,
     <<"P", "r", "i", "c", "e", ":", " ", "$", "2", "9", ".", "9", "9", " ", "&", " ", "F", "r", "e", "e", " ", "S", "h", "i", "p", "p", "i", "n", "g", "!">>,
     <<"a", " ", ">", " ", "b", " ", "\"", "c", "\"">>,
     <<"<", ">">>}

TextInputs ==
    {NoText} \cup {Str(Concat(l)) : l \in ListsOf(Tokens, MaxTokens)}
             \cup {Str(t) : t \in ExampleTexts}

MaxLengthInputs == {0, 4}

\* sanitize_text(text, max_length)
sanitize_call ==
    /\ lastCall = NoCall
    /\ \E text \in TextInputs, max_length \in MaxLengthInputs :
          lastCall' = [op |-> "sanitize_text", text |-> text, max_length |-> max_length,
                       result |-> sanitize_text(text, max_length)]
    /\ RequestIdle

\* a text field of a request: sanitized by the request schema's validator
\* when the order is submitted, and once more by the same validator of the
\* response schema in OrderResponse(**order.dict())
response_call ==
    /\ lastCall = NoCall
    /\ \E text \in TextInputs, max_length \in MaxLengthInputs :
       \E submitted \in {sanitize_text(text, max_length)} :
          lastCall' = [op |-> "OrderResponse", text |-> text, max_length |-> max_length,
                       submitted |-> submitted,
                       result |-> sanitize_text(submitted, max_length)]
    /\ RequestIdle

NextSanitize == sanitize_call \/ response_call

SpecSanitize == Init /\ [][NextSanitize]_vars
----------------------------------------------------------------------------
(* Claims about the sanitizer (SpecSanitize) *)

Sanitized == lastCall.op = "sanitize_text"

\* the literal `lit` (lower case) occurs in the text, ignoring case
Contains(text, lit) == \E i \in 1 .. Len(text) : MatchAt(text, i, lit)

EndsWith(text, lit) ==
    Len(text) >= Len(lit) /\ SubSeq(text, Len(text) - Len(lit) + 1, Len(text)) = lit

StartsWith(text, lit) == Len(text) >= Len(lit) /\ SubSeq(text, 1, Len(lit)) = lit

\* C15: the output of sanitize_text holds no "<" and no ">" character and no
\* "<script" in any case; plain text before the first or after the last
\* construct of the input is still there when nothing is cut off
\* ("Hello" at either end of the input is at that end of the output);
\* sanitize_text(None) is None.
C15_NoAngleBracketsLeft ==
    Sanitized =>
        /\ (lastCall.text = NoText => lastCall.result = NoText)
        /\ (lastCall.text # NoText =>
              /\ lastCall.result.kind = "str"
              /\ \A i \in 1 .. Len(lastCall.result.chars) :
                    lastCall.result.chars[i] \notin {"<", ">"}
              /\ ~Contains(lastCall.result.chars, <<"<", "s", "c", "r", "i", "p", "t">>)
              /\ (lastCall.max_length = 0 /\ EndsWith(lastCall.text.chars, <<"H", "e", "l", "l", "o">>) =>
                    EndsWith(lastCall.result.chars, <<"H", "e", "l", "l", "o">>))
              /\ (lastCall.max_length = 0 /\ StartsWith(lastCall.text.chars, <<"H", "e", "l", "l", "o">>) =>
                    StartsWith(lastCall.result.chars, <<"H", "e", "l", "l", "o">>)))

\* C15 witness: "<script>alert(1)</script>Hello" came back as "Hello"
C15_Witness ==
    /\ Sanitized
    /\ lastCall.text = Str(<<"<", "s", "c", "r", "i", "p", "t", ">", "a", "l", "e", "r", "t", "(", "1", ")", "<", "/", "s", "c", "r", "i", "p", "t", ">", "H", "e", "l", "l", "o">>)
    /\ lastCall.max_length = 0
    /\ lastCall.result = Str(<<"H", "e", "l", "l", "o">>)

\* C16: the output of sanitize_text holds no "javascript:" and no
\* on<word>= in any case, whatever the input.
C16_NoJavascriptLeft ==
    Sanitized /\ lastCall.text # NoText =>
        \A i \in 1 .. Len(lastCall.result.chars) :
            JavascriptMatchEnd(lastCall.result.chars, i) = 0

----------------------------------------------------------------------------
(* Analytics: app/services/analytics_service.py and the status breakdown of *)
(* app/repositories/order_repository.py.  A date is a day number; revenue   *)
(* is counted in cents; a rate or percentage is counted in hundredths.      *)

MaxDay == 4

MaxRows == 2

MaxCount == 2

\* a zero record that counts one order
zero_metric_one_order(current_date) ==
    [date |-> current_date, order_count |-> 1, total_revenue |-> Cents(0),
     average_order_value |-> Cents(0), currency |-> "USD"]

\* DailyOrderMetrics(date=current_date, order_count=0, total_revenue=Decimal("0.00"), ...)
zero_metric(current_date) ==
    [date |-> current_date, order_count |-> 0, total_revenue |-> Cents(0),
     average_order_value |-> Cents(0), currency |-> "USD"]

\* {metric.date: metric for metric in daily_metrics}: a later row replaces
\* an earlier one of the same date
RECURSIVE metrics_by_date(_)
metrics_by_date(daily_metrics) ==
    IF daily_metrics = <<>> THEN <<>>
    ELSE (Last(daily_metrics).date :> Last(daily_metrics))
         @@ metrics_by_date(Front(daily_metrics))

\* the while loop of _fill_missing_days, from current_date on
RECURSIVE fill_from(_, _, _)
fill_from(by_date, current_date, end_date) ==
    IF current_date <= end_date
    THEN <<IF current_date \in DOMAIN by_date THEN by_date[current_date]
           ELSE zero_metric(current_date)>>
         \o fill_from(by_date, current_date + 1, end_date)
    ELSE <<>>

\* AnalyticsService._fill_missing_days
fill_missing_days(daily_metrics, start_date, end_date) ==
    fill_from(metrics_by_date(daily_metrics), start_date, end_date)

\* n / d rounded to the nearest integer, a tie to the even one (d > 0)
RoundDiv(n, d) ==
    IF 2 * (n % d) > d \/ (2 * (n % d) = d /\ (n \div d) % 2 = 1)
    THEN (n \div d) + 1
    ELSE n \div d

\* a previous period that ends on the first day of the current one
previous_period_overlapping(start_date, end_date) ==
    [start_date |-> start_date - (end_date - start_date), end_date |-> start_date]

\* period_length, previous_end and previous_start of _calculate_growth_rate
previous_period(start_date, end_date) ==
    [start_date |-> (start_date - 1) - ((end_date - start_date + 1) - 1),
     end_date |-> start_date - 1]

NotAvailable == [available |-> FALSE, hundredths |-> 0]

\* round(float((current - previous) / previous * 100), 2), or None
growth_rate(current_revenue, previous_revenue) ==
    IF previous_revenue > 0
    THEN [available |-> TRUE,
          hundredths |-> RoundDiv((current_revenue - previous_revenue) * 10000,
                                  previous_revenue)]
    ELSE NotAvailable

\* round(count / total_orders * 100, 2) cut off instead of rounded
percentage_truncated(count, total_orders) ==
    IF total_orders > 0 THEN (count * 10000) \div total_orders ELSE 0

\* round((item["count"] / total_orders * 100) if total_orders > 0 else 0, 2)
percentage(count, total_orders) ==
    IF total_orders > 0 THEN RoundDiv(count * 10000, total_orders) ELSE 0

StatusOrder == <<"pending", "shipped", "cancelled">>

RECURSIVE SumCounts(_, _)
SumCounts(counts, i) ==
    IF i > Len(StatusOrder) THEN 0 ELSE counts[StatusOrder[i]] + SumCounts(counts, i + 1)

\* the rows of GROUP BY c.status: one per status that has an order
RECURSIVE StatusRows(_, _)
StatusRows(counts, i) ==
    IF i > Len(StatusOrder) THEN <<>>
    ELSE (IF counts[StatusOrder[i]] > 0
          THEN <<[status |-> StatusOrder[i], count |-> counts[StatusOrder[i]]]>>
          ELSE <<>>)
         \o StatusRows(counts, i + 1)

\* OrderRepository.get_order_status_metrics over the orders of the period,
\* given as the number of orders of each status
get_order_status_metrics(counts) ==
    [i \in 1 .. Len(StatusRows(counts, 1)) |->
        [status |-> StatusRows(counts, 1)[i].status,
         count |-> StatusRows(counts, 1)[i].count,
         percentage |-> percentage(StatusRows(counts, 1)[i].count, SumCounts(counts, 1))]]

\* rows the daily query returns: one per day and currency, some of them
\* outside the range asked for
MetricRows ==
    {[date |-> d, order_count |-> 3, total_revenue |-> Cents(3),
      average_order_value |-> Cents(1), currency |-> "USD"] : d \in 0 .. MaxDay + 1}
    \cup {[date |-> 1, order_count |-> 1, total_revenue |-> Cents(2),
           average_order_value |-> Cents(2), currency |-> "EUR"]}

\* what get_revenue_summary returns, in cents
RevenueInputs == {0, 1, 3, 7, 80000, 100000}

\* _fill_missing_days(daily_metrics, start_date, end_date)
fill_call ==
    /\ lastCall = NoCall
    /\ \E daily_metrics \in ListsOf(MetricRows, MaxRows),
          start_date \in 1 .. MaxDay, end_date \in 1 .. MaxDay :
          lastCall' = [op |-> "_fill_missing_days", daily_metrics |-> daily_metrics,
                       start_date |-> start_date, end_date |-> end_date,
                       result |-> fill_missing_days(daily_metrics, start_date, end_date)]
    /\ RequestIdle

\* _calculate_growth_rate(current_period): the two get_revenue_summary calls
\* with what each returned (or its failure), and the rate
growth_call ==
    /\ lastCall = NoCall
    /\ \E start_date \in 1 .. MaxDay, end_date \in 1 .. MaxDay,
          current_revenue \in RevenueInputs, previous_revenue \in RevenueInputs,
          fails \in BOOLEAN :
          /\ start_date <= end_date
          /\ lastCall' = [op |-> "_calculate_growth_rate",
                          start_date |-> start_date, end_date |-> end_date,
                          queried |-> <<[start_date |-> start_date, end_date |-> end_date],
                                        previous_period(start_date, end_date)>>,
                          current_revenue |-> current_revenue,
                          previous_revenue |-> previous_revenue,
                          fails |-> fails,
                          result |-> IF fails THEN NotAvailable
                                     ELSE growth_rate(current_revenue, previous_revenue)]
    /\ RequestIdle

\* get_order_status_metrics(start_date, end_date)
status_call ==
    /\ lastCall = NoCall
    /\ \E counts \in [Range(StatusOrder) -> 0 .. MaxCount] :
          lastCall' = [op |-> "get_order_status_metrics", counts |-> counts,
                       result |-> get_order_status_metrics(counts)]
    /\ RequestIdle

\* CustomerMetrics(...): total_orders ge=0, total_spent and
\* average_order_value ge=0 with decimal_places=2; the email is any string
CustomerMetrics(data) ==
    [ok |-> /\ data.total_orders >= 0
            /\ data.total_spent.coef >= 0 /\ data.total_spent.exp >= -2
            /\ data.average_order_value.coef >= 0 /\ data.average_order_value.exp >= -2,
     values |-> data]

\* an empty record that counts one order
empty_metrics_one_order(customer_id) ==
    CustomerMetrics([customer_id |-> customer_id, customer_email |-> "",
                     total_orders |-> 1, total_spent |-> Cents(0),
                     average_order_value |-> Cents(0),
                     first_order_date |-> None, last_order_date |-> None])

\* the CustomerMetrics that get_customer_analytics builds when no row matches
empty_metrics(customer_id) ==
    CustomerMetrics([customer_id |-> customer_id, customer_email |-> "",
                     total_orders |-> 0, total_spent |-> Cents(0),
                     average_order_value |-> Cents(0),
                     first_order_date |-> None, last_order_date |-> None])

\* for metric in customer_metrics: if metric.customer_id == customer_id: return metric
RECURSIVE find_customer(_, _, _)
find_customer(customer_metrics, customer_id, i) ==
    IF i > Len(customer_metrics) THEN empty_metrics(customer_id)
    ELSE IF customer_metrics[i].customer_id = customer_id
    THEN [ok |-> TRUE, values |-> customer_metrics[i]]
    ELSE find_customer(customer_metrics, customer_id, i + 1)

\* AnalyticsService.get_customer_analytics, given what get_customer_metrics returned
get_customer_analytics(customer_metrics, customer_id) ==
    find_customer(customer_metrics, customer_id, 1)

\* rows of get_customer_metrics: one per customer_id and customer_email
CustomerRows ==
    {[customer_id |-> "c1", customer_email |-> "a@x", total_orders |-> 2,
      total_spent |-> Cents(4), average_order_value |-> Cents(2),
      first_order_date |-> 1, last_order_date |-> 2],
     [customer_id |-> "c1", customer_email |-> "b@x", total_orders |-> 1,
      total_spent |-> Cents(2), average_order_value |-> Cents(2),
      first_order_date |-> 3, last_order_date |-> 3],
     [customer_id |-> "c2", customer_email |-> "c@x", total_orders |-> 1,
      total_spent |-> Cents(1), average_order_value |-> Cents(1),
      first_order_date |-> 1, last_order_date |-> 1]}

\* get_customer_analytics(customer_id, date_range)
customer_call ==
    /\ lastCall = NoCall
    /\ \E customer_metrics \in ListsOf(CustomerRows, MaxRows),
          customer_id \in {"c1", "c2", "c3"} :
          lastCall' = [op |-> "get_customer_analytics",
                       customer_metrics |-> customer_metrics,
                       customer_id |-> customer_id,
                       result |-> get_customer_analytics(customer_metrics, customer_id)]
    /\ RequestIdle

NextAnalytics == fill_call \/ growth_call \/ status_call \/ customer_call

SpecAnalytics == Init /\ [][NextAnalytics]_vars

----------------------------------------------------------------------------
(* The cancel endpoint: app/api/v1/endpoints/orders.py, POST                *)
(* /orders/{order_id}/cancel, over the service.                             *)

\* the class of the exception that leaves OrderService.cancel_order: all of
\* its body, the guard's raise ValueError included, is inside one try whose
\* `except Exception as e` raises RuntimeError(f"Failed to cancel order ...{e}")
ServiceRaises(ret) == IF ret.outcome = "error" THEN "RuntimeError" ELSE None

\* the endpoint: 404 when the service returned None, then its except clauses
\* in their order: HTTPException, ValueError, Exception
StatusCode(ret) ==
    CASE ret.outcome = "none" -> 404
      [] ret.outcome = "ok" -> 200
      [] ServiceRaises(ret) = "ValueError" -> 400
      [] OTHER -> 500

\* POST /orders/{order_id}/cancel?customer_id=...
cancel_order_endpoint ==
    /\ clock < MaxClock
    /\ \E order_id \in OrderIds, customer_id \in Customers :
       \E res \in {cancel_result(order_id, customer_id)} :
          /\ store' = res.store
          /\ clock' = res.clock
          /\ lastCall' = res.ret @@ [status_code |-> StatusCode(res.ret),
                                     detail |-> res.ret.msg]
    /\ ServiceIdle

NextApi == create_order \/ update_order \/ cancel_order_endpoint

SpecApi == Init /\ [][NextApi]_vars

----------------------------------------------------------------------------
(* update_order and cancel_order of several requests on one container:     *)
(* each reads the document (get_by_id) and later replaces it whole          *)
(* (replace_item, sent without a match condition); between the two calls    *)
(* the container serves the other requests.  A request that has answered     *)
(* stays in `requests` with what it returned.                               *)

MaxRequests == 2

RequestIds == 1 .. MaxRequests

\* the order the requests work on: created by create_order at time 1
FirstOrder ==
    NewOrder([customer_id |-> "c1",
              items |-> <<[quantity |-> 1, unit_price |-> Cents(1)]>>,
              tax_amount |-> Cents(0), shipping_amount |-> Cents(0),
              discount_amount |-> Cents(0), notes |-> None], 1, 1)

\* the OrderUpdate bodies of the requests: only the status, or only the notes
ConcurrentUpdates == {("status" :> "shipped"), ("notes" :> "n1")}

InFlight(r, op) ==
    /\ r \in DOMAIN requests
    /\ requests[r].pc = "read"
    /\ requests[r].op = op

\* a request after existing_order = await ...get_by_id(order_id, customer_id):
\* it has answered None, or holds the order it read
AfterRead(op, order_id, customer_id, update_data) ==
    [op |-> op, order_id |-> order_id, customer_id |-> customer_id,
     update_data |-> update_data,
     existing_order |-> IF Readable(order_id, customer_id)
                        THEN order_from_dict(store[order_id]) ELSE None,
     pc |-> IF Readable(order_id, customer_id) THEN "read" ELSE "done",
     outcome |-> IF Readable(order_id, customer_id) THEN None ELSE "none"]

\* what the caller got, if the request has answered
Answer(req) ==
    IF req.pc = "done"
    THEN Returned(req.op, req.order_id, req.customer_id, "none", "", None, FALSE)
    ELSE lastCall

\* the request has answered
Done(r, ret) ==
    /\ requests' = [requests EXCEPT ![r].pc = "done", ![r].outcome = ret.outcome]
    /\ lastCall' = ret

\* update_order up to its read of the order
update_read ==
    /\ \E r \in RequestIds \ DOMAIN requests, order_id \in OrderIds,
          customer_id \in Customers, update_data \in ConcurrentUpdates :
       \E req \in {AfterRead("update_order", order_id, customer_id, update_data)} :
          /\ requests' = requests @@ (r :> req)
          /\ lastCall' = Answer(req)
    /\ UNCHANGED <<store, clock, entity, lastCtor, amountIn, amountOut>>

\* update_order from the setattr loop on: order_repository.update replaces
\* the document by the order that was read, with the request's fields set
update_write ==
    /\ clock < MaxClock
    /\ \E r \in RequestIds :
          /\ InFlight(r, "update_order")
          /\ \E updated \in {ApplyUpdate(requests[r].existing_order,
                                         requests[r].update_data, 1)} :
                IF updated.ok
                THEN /\ store' = RepositoryUpdate(
                                    [updated.values EXCEPT !["updated_at"] = clock + 1],
                                    clock + 1)
                     /\ clock' = clock + 1
                     /\ Done(r, Returned("update_order", requests[r].order_id,
                                         requests[r].customer_id, "ok", "", None, TRUE))
                ELSE /\ UNCHANGED <<store, clock>>
                     /\ Done(r, Returned("update_order", requests[r].order_id,
                                         requests[r].customer_id, "error",
                                         "Failed to update order", None, FALSE))
    /\ UNCHANGED <<entity, lastCtor, amountIn, amountOut>>

\* cancel_order up to its read of the order
cancel_read ==
    /\ \E r \in RequestIds \ DOMAIN requests, order_id \in OrderIds,
          customer_id \in Customers :
       \E req \in {AfterRead("cancel_order", order_id, customer_id, None)} :
          /\ requests' = requests @@ (r :> req)
          /\ lastCall' = Answer(req)
    /\ UNCHANGED <<store, clock, entity, lastCtor, amountIn, amountOut>>

\* cancel_order from its guard on: the guard looks at the order that was
\* read, and order_repository.update replaces the document by that order
\* with status cancelled
cancel_write ==
    /\ clock < MaxClock
    /\ \E r \in RequestIds :
          /\ InFlight(r, "cancel_order")
          /\ \E res \in {cancel_existing(requests[r].existing_order, requests[r].order_id,
                                         requests[r].customer_id)} :
                /\ store' = res.store
                /\ clock' = res.clock
                /\ Done(r, res.ret)
    /\ UNCHANGED <<entity, lastCtor, amountIn, amountOut>>

NextConcurrent == update_read \/ update_write \/ cancel_read \/ cancel_write

InitConcurrent ==
    /\ store = (1 :> order_to_dict(FirstOrder.values))
    /\ clock = 1
    /\ lastCall = Returned("create_order", 1, "c1", "ok", "", None, FALSE)
    /\ requests = NoRequests
    /\ entity = NoEntity
    /\ lastCtor = NoCall
    /\ amountIn = IdleAmountIn
    /\ amountOut = IdleAmountOut

SpecConcurrent == InitConcurrent /\ [][NextConcurrent]_vars

----------------------------------------------------------------------------
(* get_order_status_metrics beside create_order: the repository sends its   *)
(* two queries one after the other, and a create_order of another request   *)
(* may reach the container between them.                                    *)

\* COUNT(1) ... GROUP BY c.status over the documents of the container
StatusCounts(st) ==
    [s \in Range(StatusOrder) |-> Cardinality({id \in DOMAIN st : st[id]["status"] = s})]

\* OrderStatusMetrics(...): count ge=0, percentage ge=0 and le=100
OrderStatusMetrics(data) ==
    [ok |-> data.count >= 0 /\ data.percentage >= 0 /\ data.percentage <= 10000,
     values |-> data]

\* the loop over the grouped rows, with the total_orders of the first query
status_metrics(total_orders, rows) ==
    [i \in 1 .. Len(rows) |->
        OrderStatusMetrics([status |-> rows[i].status, count |-> rows[i].count,
                            percentage |-> percentage(rows[i].count, total_orders)])]

\* what get_order_status_metrics returns, or the RuntimeError it raises when
\* an OrderStatusMetrics is refused
MetricsReturned(total_orders, counts, metrics) ==
    [op |-> "get_order_status_metrics", total_orders |-> total_orders, counts |-> counts,
     outcome |-> IF \A i \in 1 .. Len(metrics) : metrics[i].ok THEN "ok" ELSE "error",
     result |-> IF \A i \in 1 .. Len(metrics) : metrics[i].ok
                THEN [i \in 1 .. Len(metrics) |-> metrics[i].values]
                ELSE <<>>]

MetricsIdle == UNCHANGED <<store, clock, entity, lastCtor, amountIn, amountOut>>

\* the first query: SELECT COUNT(1) as total_count
total_query ==
    /\ "metrics" \notin DOMAIN requests
    /\ requests' = ("metrics" :> [total_orders |-> Cardinality(DOMAIN store)])
    /\ UNCHANGED lastCall
    /\ MetricsIdle

\* the second query, GROUP BY c.status, and the loop over its rows
grouped_query ==
    /\ "metrics" \in DOMAIN requests
    /\ \E counts \in {StatusCounts(store)} :
       \E metrics \in {status_metrics(requests["metrics"].total_orders,
                                      StatusRows(counts, 1))} :
          lastCall' = MetricsReturned(requests["metrics"].total_orders, counts, metrics)
    /\ requests' = NoRequests
    /\ MetricsIdle

NextMetrics == create_order \/ total_query \/ grouped_query

SpecMetrics == Init /\ [][NextMetrics]_vars

----------------------------------------------------------------------------
(* Claims about the analytics (SpecAnalytics) *)

Filled == lastCall.op = "_fill_missing_days"

\* the rows of the input dated d, by position
RowsOf(d) == {i \in 1 .. Len(lastCall.daily_metrics) : lastCall.daily_metrics[i].date = d}

\* C18: for start_date <= end_date the result has (end_date - start_date) + 1
\* records, the k-th dated start_date + k - 1; the record of a day that has
\* an input row is that row as given (the last of them when the input has
\* several rows of that day), and the record of a day without one has
\* order_count 0, total_revenue 0.00, average_order_value 0.00 and currency
\* USD; no row dated outside the range appears.
C18_FillCoversEveryDay ==
    Filled /\ lastCall.start_date <= lastCall.end_date =>
        /\ Len(lastCall.result) = (lastCall.end_date - lastCall.start_date) + 1
        /\ \A k \in 1 .. Len(lastCall.result) :
              /\ lastCall.result[k].date = lastCall.start_date + k - 1
              /\ (RowsOf(lastCall.start_date + k - 1) # {} =>
                    \E i \in RowsOf(lastCall.start_date + k - 1) :
                       /\ \A j \in RowsOf(lastCall.start_date + k - 1) : j <= i
                       /\ lastCall.result[k] = lastCall.daily_metrics[i])
              /\ (RowsOf(lastCall.start_date + k - 1) = {} =>
                    /\ lastCall.result[k].order_count = 0
                    /\ lastCall.result[k].total_revenue = Dec(0, -2)
                    /\ lastCall.result[k].average_order_value = Dec(0, -2)
                    /\ lastCall.result[k].currency = "USD")

\* C18 witness: days 1..4 with rows on day 1 and day 3 gave four records,
\* those of day 2 and day 4 with no orders
C18_Witness ==
    /\ Filled
    /\ lastCall.start_date = 1 /\ lastCall.end_date = 4
    /\ Len(lastCall.daily_metrics) = 2
    /\ lastCall.daily_metrics[1].date = 1 /\ lastCall.daily_metrics[2].date = 3
    /\ Len(lastCall.result) = 4
    /\ lastCall.result[1].order_count > 0 /\ lastCall.result[2].order_count = 0
    /\ lastCall.result[3].order_count = 3 /\ lastCall.result[4].order_count = 0

Growth == lastCall.op = "_calculate_growth_rate"

\* C19: the second period queried has the length of the current one and ends
\* the day before it starts; with previous revenue 0 the rate is not
\* available; otherwise it is (current - previous) / previous * 100 to the
\* nearest hundredth, 25.00 for 1000.00 against 800.00.
C19_GrowthAgainstPreviousPeriod ==
    Growth =>
        /\ lastCall.queried[1] = [start_date |-> lastCall.start_date,
                                  end_date |-> lastCall.end_date]
        /\ lastCall.queried[2].end_date = lastCall.start_date - 1
        /\ lastCall.queried[2].end_date - lastCall.queried[2].start_date
              = lastCall.end_date - lastCall.start_date
        /\ (~lastCall.fails /\ lastCall.previous_revenue = 0 => ~lastCall.result.available)
        /\ (~lastCall.fails /\ lastCall.previous_revenue > 0 =>
              /\ lastCall.result.available
              /\ 2 * DecAbs(Dec(lastCall.result.hundredths * lastCall.previous_revenue
                                - (lastCall.current_revenue - lastCall.previous_revenue) * 10000,
                                0)).coef
                    <= lastCall.previous_revenue
              /\ (lastCall.current_revenue = 100000 /\ lastCall.previous_revenue = 80000 =>
                    lastCall.result.hundredths = 2500))

\* C19 witness: 1000.00 against 800.00 gave 25.00
C19_Witness ==
    /\ Growth /\ ~lastCall.fails
    /\ lastCall.start_date = 2 /\ lastCall.end_date = 3
    /\ lastCall.queried[2] = [start_date |-> 0, end_date |-> 1]
    /\ lastCall.current_revenue = 100000 /\ lastCall.previous_revenue = 80000
    /\ lastCall.result = [available |-> TRUE, hundredths |-> 2500]

Breakdown == lastCall.op = "get_order_status_metrics"

TotalOrders ==
    lastCall.counts["pending"] + lastCall.counts["shipped"] + lastCall.counts["cancelled"]

\* C20: every status that has an order in the period has a row, and its
\* percentage is count / total_orders * 100 to the nearest hundredth, where
\* total_orders counts the orders of all statuses; with no order in the
\* period every percentage is 0.
C20_PercentageOfAllOrders ==
    Breakdown =>
        /\ {lastCall.result[i].status : i \in 1 .. Len(lastCall.result)}
              = {st \in DOMAIN lastCall.counts : lastCall.counts[st] > 0}
        /\ \A i \in 1 .. Len(lastCall.result) :
              /\ lastCall.result[i].count = lastCall.counts[lastCall.result[i].status]
              /\ (TotalOrders > 0 =>
                    2 * DecAbs(Dec(lastCall.result[i].percentage * TotalOrders
                                   - lastCall.result[i].count * 10000, 0)).coef
                       <= TotalOrders)
              /\ (TotalOrders = 0 => lastCall.result[i].percentage = 0)

\* C20 witness: two pending orders and a shipped one gave 66.67 and 33.33
C20_Witness ==
    /\ Breakdown
    /\ lastCall.counts["pending"] = 2 /\ lastCall.counts["shipped"] = 1
    /\ lastCall.counts["cancelled"] = 0
    /\ Len(lastCall.result) = 2
    /\ lastCall.result[1].percentage = 6667
    /\ lastCall.result[2].percentage = 3333

CustomerLookup == lastCall.op = "get_customer_analytics"

\* the fetched rows of the requested customer, by position
MatchingRows ==
    {i \in 1 .. Len(lastCall.customer_metrics) :
        lastCall.customer_metrics[i].customer_id = lastCall.customer_id}

\* C21: get_customer_analytics returns a fetched row of the requested
\* customer_id when there is one (the first of them); when there is none it
\* returns, without failing, the record of that id with an empty email,
\* total_orders 0, total_spent 0.00, average_order_value 0.00 and no first
\* or last order date.
C21_CustomerRowOrZeroRecord ==
    CustomerLookup =>
        /\ lastCall.result.ok
        /\ (MatchingRows # {} =>
              \E i \in MatchingRows :
                 /\ \A j \in MatchingRows : i <= j
                 /\ lastCall.result.values = lastCall.customer_metrics[i])
        /\ (MatchingRows = {} =>
              /\ lastCall.result.values.customer_id = lastCall.customer_id
              /\ lastCall.result.values.customer_email = ""
              /\ lastCall.result.values.total_orders = 0
              /\ lastCall.result.values.total_spent = Dec(0, -2)
              /\ lastCall.result.values.average_order_value = Dec(0, -2)
              /\ lastCall.result.values.first_order_date = None
              /\ lastCall.result.values.last_order_date = None)

\* C21 witness: customer c3 looked up among the rows of c1 and c2 got the
\* zero record
C21_Witness ==
    /\ CustomerLookup
    /\ lastCall.customer_id = "c3"
    /\ Len(lastCall.customer_metrics) = 2
    /\ lastCall.customer_metrics[1].customer_id = "c1"
    /\ lastCall.customer_metrics[2].customer_id = "c2"
    /\ lastCall.result.ok
    /\ lastCall.result.values.customer_id = "c3"
    /\ lastCall.result.values.total_orders = 0

----------------------------------------------------------------------------
(* Claims about the derived amounts of create_order (SpecRequest) *)

Created == lastCall.op = "create_order" /\ lastCall.outcome = "ok"

\* the sum over the line items of quantity * unit_price
RECURSIVE SumOfProducts(_)
SumOfProducts(items) ==
    IF items = <<>> THEN BigDec(0, <<0>>, 0)
    ELSE BigAdd(SumOfProducts(Front(items)),
                BigMulInt(Last(items).quantity, Last(items).unit_price))

----------------------------------------------------------------------------
(* Further claims about the service (Spec) *)

UpdateStep == lastCall'.op = "update_order"

\* C23: an update_order that names a status of the enumeration, on an order
\* that exists, is accepted whatever the stored status is, and the stored
\* status becomes the one named.
C23_AnyStatusChangeAccepted ==
    [][/\ UpdateStep
       /\ Readable(lastCall'.order_id, lastCall'.customer_id)
       /\ "status" \in DOMAIN lastCall'.update_data
       /\ lastCall'.update_data["status"] \in OrderStatus
       => /\ lastCall'.outcome = "ok"
          /\ lastCall'.existing_status = StatusOf(store, lastCall'.order_id)
          /\ StatusOf(store', lastCall'.order_id) = lastCall'.update_data["status"]]_vars

\* C23 witness: an update took a refunded order back to pending
C23_Witness ==
    /\ lastCall.op = "update_order"
    /\ lastCall.outcome = "ok"
    /\ lastCall.existing_status = "refunded"
    /\ lastCall.update_data = ("status" :> "pending")
    /\ StatusOf(store, lastCall.order_id) = "pending"

----------------------------------------------------------------------------
(* Claims about get_order_status_metrics beside create_order (SpecMetrics) *)

\* C24: every get_order_status_metrics succeeds and every percentage it
\* returns lies in [0, 100], also when a create_order stored an order
\* between its two queries.
C24_PercentagesWithinRange ==
    lastCall.op = "get_order_status_metrics" =>
        /\ lastCall.outcome = "ok"
        /\ \A i \in 1 .. Len(lastCall.result) :
              lastCall.result[i].percentage >= 0 /\ lastCall.result[i].percentage <= 10000

\* the fields update_order and cancel_order may change
Updatable == {"status", "notes", "shipping_address", "updated_at"}

\* the totals of a stored document, with zero difference
TotalsExact(d) ==
    /\ \A i \in 1 .. Len(d["items"]) :
          DecEq(d["items"][i]["total_price"],
                DecMulInt(d["items"][i]["quantity"], d["items"][i]["unit_price"]))
    /\ DecEq(d["subtotal"], SumTotalPrice(d["items"]))
    /\ DecEq(d["total_amount"],
             DecSub(DecAdd(DecAdd(d["subtotal"], d["tax_amount"]), d["shipping_amount"]),
                    d["discount_amount"]))

\* C27: a step of update_order or cancel_order keeps every stored order and
\* changes none of its fields other than status, notes, shipping_address
\* and updated_at (so id, order_number, customer_id, partition_key, items
\* and the five amounts stay), and after every step of create_order,
\* update_order or cancel_order every stored order has its totals exact.
C27_UpdatesKeepTheRest ==
    [][/\ \A id \in DOMAIN store' : TotalsExact(store'[id])
       /\ (lastCall'.op \in {"update_order", "cancel_order"} =>
              /\ DOMAIN store' = DOMAIN store
              /\ \A id \in DOMAIN store :
                    /\ DOMAIN store'[id] = DOMAIN store[id]
                    /\ \A f \in DOMAIN store[id] \ Updatable :
                          store'[id][f] = store[id][f])]_vars

\* C27 witness: an order with two line items and a tax, annotated by an
\* update and then cancelled, still has the amounts it was created with
C27_Witness ==
    /\ lastCall.op = "cancel_order"
    /\ lastCall.outcome = "ok"
    /\ store[lastCall.order_id]["status"] = "cancelled"
    /\ store[lastCall.order_id]["notes"] = "n1"
    /\ store[lastCall.order_id]["updated_at"] = 3
    /\ Len(store[lastCall.order_id]["items"]) = 2
    /\ DecEq(store[lastCall.order_id]["subtotal"], Cents(4))
    /\ DecEq(store[lastCall.order_id]["total_amount"], Cents(5))

----------------------------------------------------------------------------
(* Claims about requests on one container (SpecConcurrent) *)

\* C25: no step of a cancel_order replaces a stored status of 'shipped' or
\* 'delivered' by 'cancelled', whatever update_order requests run beside it.
C25_CancelNeverOverwritesShipped ==
    [][\A id \in DOMAIN store :
          ShippedToCancelled(id) => lastCall'.op # "cancel_order"]_vars

\* both requests have answered with an order
BothUpdated(r1, r2) ==
    /\ r1 \in DOMAIN requests /\ r2 \in DOMAIN requests
    /\ requests[r1].op = "update_order" /\ requests[r2].op = "update_order"
    /\ requests[r1].pc = "done" /\ requests[r2].pc = "done"
    /\ requests[r1].outcome = "ok" /\ requests[r2].outcome = "ok"
    /\ requests[r1].order_id = requests[r2].order_id

\* C26: when an update_order that sets only the notes and an update_order
\* that sets only the status, both on the same order, have both succeeded,
\* the stored order has the new notes and the new status.
C26_NoLostUpdate ==
    \A r1 \in RequestIds, r2 \in RequestIds :
        /\ BothUpdated(r1, r2)
        /\ requests[r1].update_data = ("notes" :> "n1")
        /\ requests[r2].update_data = ("status" :> "shipped")
        => /\ store[requests[r1].order_id]["notes"] = "n1"
           /\ store[requests[r1].order_id]["status"] = "shipped"

----------------------------------------------------------------------------
(* Further claims about the sanitizer (SpecSanitize) *)

\* C28: sanitize_text applied to its own result returns that result: the
\* text a response carries is the text the request's validator produced.
C28_SanitizeIdempotent ==
    lastCall.op = "OrderResponse" => lastCall.result = lastCall.submitted

----------------------------------------------------------------------------
(* Further claims about the analytics (SpecAnalytics) *)

\* the order_count of the rows dated d, summed
RECURSIVE CountAt(_, _)
CountAt(daily_metrics, d) ==
    IF daily_metrics = <<>> THEN 0
    ELSE CountAt(Front(daily_metrics), d)
         + (IF Last(daily_metrics).date = d THEN Last(daily_metrics).order_count ELSE 0)

\* the total_revenue of the rows dated d, summed
RECURSIVE RevenueAt(_, _)
RevenueAt(daily_metrics, d) ==
    IF daily_metrics = <<>> THEN Cents(0)
    ELSE DecAdd(RevenueAt(Front(daily_metrics), d),
                IF Last(daily_metrics).date = d THEN Last(daily_metrics).total_revenue
                ELSE Cents(0))

\* rows as get_daily_metrics groups them: one per date and currency
Grouped(daily_metrics) ==
    \A i \in 1 .. Len(daily_metrics), j \in 1 .. Len(daily_metrics) :
        /\ daily_metrics[i].date = daily_metrics[j].date
        /\ daily_metrics[i].currency = daily_metrics[j].currency
        => i = j

\* C29: for every day of the range the record of the result has the
\* order_count and the total_revenue of all input rows of that day, summed,
\* also when the input (one row per date and currency) holds several rows
\* of one day.
C29_FillLosesNothing ==
    Filled /\ lastCall.start_date <= lastCall.end_date /\ Grouped(lastCall.daily_metrics) =>
        \A k \in 1 .. Len(lastCall.result) :
            /\ lastCall.result[k].order_count
                  = CountAt(lastCall.daily_metrics, lastCall.start_date + k - 1)
            /\ DecEq(lastCall.result[k].total_revenue,
                     RevenueAt(lastCall.daily_metrics, lastCall.start_date + k - 1))

----------------------------------------------------------------------------
(* Claims about the cancel endpoint (SpecApi) *)

\* C30: a cancel request that the status guard rejects is answered 400 with
\* the reason 'Cannot cancel order in status', and a cancel request for an
\* order that does not exist is answered 404.
C30_RejectedCancelIsClientError ==
    lastCall.op = "cancel_order" =>
        /\ (lastCall.outcome = "none" => lastCall.status_code = 404)
        /\ (lastCall.outcome = "error" /\ lastCall.msg = "Cannot cancel order in status" =>
              /\ lastCall.status_code = 400
              /\ lastCall.detail = "Cannot cancel order in status")
====
